---- MODULE Spec2Model ----
(***************************************************************************)
(* bilibili2txt: the cross-host job queue kept in a shared git repository  *)
(* (libs/git_utils.py, server/server_out_queue.py, client/out_queue.py)    *)
(* and the multi-provider dispatcher (libs/ai_utils.py).                   *)
(***************************************************************************)
EXTENDS Integers, Sequences, FiniteSets, TLC

\* ------------------------------------------------------------------ bounds
MaxFiles == 2          \* job files of to_stt in the initial shared tree
MaxLines == 2          \* lines of a job file in the initial shared tree
MaxDuration == 3       \* durations range over 1..MaxDuration
DurationLimit == 2     \* the configured server_out_queue_duration_limit
MaxArtifacts == 1      \* result artifacts of from_stt in the initial shared tree
MaxItems == 2          \* lines of to_stt in the initial shared tree of Spec
NumTasks == 3          \* tasks the caller may add to a BatchTaskProcessor
MaxInterval == 2       \* the intervals of the provider configs range over 0..MaxInterval
ExampleLimit == 100    \* the duration limit of the worked examples
ExampleLen == 3        \* the worked examples have up to ExampleLen jobs in one file
MaxEnqueues == 1       \* in_queue is started at most MaxEnqueues times
MaxTime == 4           \* the clock runs from Epoch to Epoch + MaxTime
NumPaths == 3          \* the paths a publish may touch are 1..NumPaths
ChunkSize == 2         \* CHUNK_SIZE, scaled down from 100
MaxRivals == 1         \* commits other hosts push while push_changes runs
MaxAttempts == 2       \* rounds of a retry loop followed while reset_repo raises
MaxPoolTasks == 2      \* tasks given to a pool built from the provider list
MaxFixFiles == 3       \* files fix_summaries finds in need of a fix
MaxConfigs == 2        \* entries of open_ai_list when test_all_ai_apis is called
MaxResults == 2        \* result files over the servers' SRC_DIRs and from_stt

\* ------------------------------------------------------------------ hosts
Servers == {"s1", "s2"}
Clients == {"c1"}
Producers == {"q1"}
Hosts == Servers \cup Clients \cup Producers

Files == 1..MaxFiles
Artifacts == 1..MaxArtifacts
NoLine == [id |-> 0, kind |-> "none", dur |-> 0]

VARIABLES
  history,      \* the shared branch: the sequence of accepted commits
  wc,           \* each host's working copy (tracked and untracked files alike)
  head,         \* each host's origin/<branch>: index in history of its last fetch
  pc,           \* each host's position in its loop
  ret,          \* what the host's queue operation returned
  bv_list,      \* TEMP_DIR/bv_list.txt of each server
  commit_msg,   \* the commit message of the attempt
  processed,    \* lines each server's main loop handed to process_input
  saved,        \* DST_DIR of each client
  limit_type,   \* config server_out_queue_limit_type
  duration_limit, \* config server_out_queue_duration_limit
  force,        \* client out_queue(force)
  synced,       \* the tree each host's last reset_repo produced
  lostTo        \* index of the shared tip that made the host's last publish fail

qvars == <<history, wc, head, pc, ret, bv_list, commit_msg, processed,
           saved, limit_type, duration_limit, force, synced, lostTo>>

\* BatchTaskProcessor (libs/ai_utils.py)
VARIABLES
  task_queue,   \* self.task_queue: the tasks waiting, oldest first
  unfinished,   \* task_queue.unfinished_tasks, what task_queue.join() waits on
  stop_event,   \* self.stop_event
  wpc,          \* each worker thread's position in _worker_loop
  task,         \* each worker's local variable task
  mpc,          \* the caller's position: add_task, wait_and_stop
  submitted,    \* how many tasks the caller has added
  results,      \* per task id, the ai_name of every on_result_callback call
  failures,     \* the <<task id, provider>> pairs of the provider calls that failed
  reliable,     \* the providers whose calls never fail in this run
  cb_raises     \* whether on_result_callback may raise

poolvars == <<task_queue, unfinished, stop_event, wpc, task, mpc, submitted,
              results, failures, reliable, cb_raises>>

\* RateLimiter and chat_completion (libs/ai_utils.py)
VARIABLES
  now,          \* time.time()
  last_times,   \* _rate_limiter._last_times; 0 where the key is absent
  lock,         \* the thread inside "with self._lock", or "free"
  tpc,          \* each calling thread's position in chat_completion
  wake,         \* when the thread's time.sleep is over
  api_name,     \* ai_config["openai_api_name"] of each thread
  interval,     \* ai_config["interval"] of each name
  prev_stamp,   \* the timestamp last_times held before its last update
  call_at,      \* per name, when the last provider call started
  prev_call_at  \* per name, when the provider call before that started

ratevars == <<now, last_times, lock, tpc, wake, api_name, interval, prev_stamp,
              call_at, prev_call_at>>

\* client/in_queue.py
VARIABLES
  input_path,   \* the file in_queue was started on: its name and its lines
  enqueued      \* how many times in_queue was started

invars == <<input_path, enqueued>>

\* git_repo_transaction's callback (libs/git_utils.py)
VARIABLES
  success_func, \* whether the caller of git_repo_transaction passed a success_func
  on_success    \* the commit messages success_func was called with

cbvars == <<success_func, on_success>>

\* push_changes seen file by file (libs/git_utils.py)
VARIABLES
  work_tree,    \* the publishing host's working tree: the content at each path
  index,        \* repo.index of the publishing host
  local_commit, \* the tree of the commit repo.index.commit made
  origin,       \* the shared branch as a sequence of committed trees
  todo,         \* the chunks _process_in_chunks has still to stage
  staged,       \* how many chunks were staged
  ppc,          \* the publishing host's position in push_changes
  observed      \* the trees other hosts got from their reset_repo

chunkvars == <<work_tree, index, local_commit, origin, todo, staged, ppc, observed>>

\* the repository path (config queue_dir)
VARIABLES
  repo_ok,      \* whether git.Repo(repo_path) opens a repository
  attempts      \* per host, how many of its reset_repo calls have raised

setupvars == <<repo_ok, attempts>>

\* the provider list and the construction of a pool (libs/ai_utils.py)
VARIABLES
  open_ai_list,   \* config["open_ai_list"]: the names of the configs, in order
  is_failed,      \* the "is_failed" flag of each config
  select_open_ai, \* config["select_open_ai"]
  entry,          \* which pool is built: BatchTaskProcessor or process_tasks_distributed
  max_workers,    \* the max_workers argument; 0 stands for None
  threads,        \* the config each started worker thread was given, "None" for none
  tasks_left,     \* tasks not yet taken from the pool's queue
  handed,         \* <<who, provider>>: who took a task (0 the caller itself) and
                  \* the provider it called for it ("none": no call was made)
  cpc             \* "new", "running", "done"; "off": no pool in this run

cfgvars == <<open_ai_list, is_failed, select_open_ai, entry, max_workers, threads,
             tasks_left, handed, cpc>>

\* process_tasks_distributed (libs/ai_utils.py)
VARIABLES
  dist_configs, \* ai_configs: the names get_all() returned, one thread each
  dist_queue,   \* the local task_queue: the (index, content) pairs not yet taken
  dist_results, \* results: per index, None or the tuple stored there
  dist_pc,      \* each worker's position in worker()
  dist_task,    \* each worker's (index, content)
  dist_taken,   \* per index, how many times get_nowait returned it
  dist_main     \* the caller: "threads", "returned"; "off": no call in this run

distvars == <<dist_configs, dist_queue, dist_results, dist_pc, dist_task,
              dist_taken, dist_main>>

\* server_in_queue.py
VARIABLES
  server_text,  \* SRC_DIR of each server: the result files process_input wrote
  in_input_files   \* in_queue's input_files: what its glob of SRC_DIR returned

upvars == <<server_text, in_input_files>>

\* fix_summaries (client/fix_ai_summary.py)
VARIABLES
  fix_files,      \* files of the glob that need a fix and were not yet reached
  fix_queue,      \* the bounded task_queue, oldest first
  failed_queue,   \* failed_queue
  producer_done,  \* the event producer_done
  fix_stop,       \* the module's stop_event
  task_count,     \* task_count: tasks enqueued so far, numbered in this order
  fix_pc,         \* fix_summaries: "scan", "join", "returned"; "off": not called
  fix_wpc,        \* each worker_thread's position
  fix_task,       \* each worker's local variable task, 0 for none
  fix_taken,      \* per task, how many times task_queue.get returned it
  fix_outcomes    \* per task, what process_single_file returned, call by call

fixvars == <<fix_files, fix_queue, failed_queue, producer_done, fix_stop, task_count,
             fix_pc, fix_wpc, fix_task, fix_taken, fix_outcomes>>

\* test_all_ai_apis (libs/ai_utils.py)
VARIABLES
  all_configs,  \* config["open_ai_list"]: the entries, flagged in place
  futures,      \* per entry, its _test_single: "running", "passed", "failed"
  completed,    \* the entries whose future the as_completed loop has handled
  any_success,  \* any_success
  test_ret      \* "running", "True", "False", "raised"; "off": not called

testvars == <<all_configs, futures, completed, any_success, test_ret>>

vars == <<qvars, poolvars, ratevars, invars, cbvars, chunkvars, setupvars, cfgvars, distvars, upvars, fixvars, testvars>>
notq == <<poolvars, ratevars, invars, cbvars, chunkvars, setupvars, cfgvars, distvars, upvars, fixvars, testvars>>
notpool == <<qvars, ratevars, invars, cbvars, chunkvars, setupvars, cfgvars, distvars, upvars, fixvars, testvars>>
notrate == <<qvars, poolvars, invars, cbvars, chunkvars, setupvars, cfgvars, distvars, upvars, fixvars, testvars>>
notin == <<poolvars, ratevars, cbvars, chunkvars, setupvars, cfgvars, distvars, upvars, fixvars, testvars>>
notcb == <<poolvars, ratevars, invars, chunkvars, setupvars, cfgvars, distvars, upvars, fixvars, testvars>>
notchunk == <<qvars, poolvars, ratevars, invars, cbvars, setupvars, cfgvars, distvars, upvars, fixvars, testvars>>
notsetup == <<qvars, poolvars, ratevars, invars, cbvars, chunkvars, cfgvars, distvars, upvars, fixvars, testvars>>
notcfg == <<qvars, poolvars, ratevars, invars, cbvars, chunkvars, setupvars, distvars, upvars, fixvars, testvars>>
notdist == <<qvars, poolvars, ratevars, invars, cbvars, chunkvars, setupvars, cfgvars, upvars, fixvars, testvars>>
notup == <<poolvars, ratevars, invars, cbvars, chunkvars, setupvars, cfgvars, distvars, fixvars, testvars>>
notfix == <<qvars, poolvars, ratevars, invars, cbvars, chunkvars, setupvars, cfgvars, distvars, upvars, testvars>>
nottest == <<qvars, poolvars, ratevars, invars, cbvars, chunkvars, setupvars, cfgvars, distvars, upvars, fixvars>>

\* test_all_ai_apis is not called
NoTest ==
  /\ all_configs = <<>> /\ futures = <<>> /\ completed = {}
  /\ any_success = FALSE /\ test_ret = "off"

\* no server has results to upload
NoResults ==
  /\ server_text = [h \in Servers |-> {}]
  /\ in_input_files = [h \in Servers |-> {}]

\* ------------------------------------------------------------ job files
\* A line of a job file.  kind "raw": json.loads raises JSONDecodeError (a
\* passthrough or blank line); "json": an object with a numeric duration;
\* "nodur": valid JSON on which bv_info["duration"] raises.
Shapes == [kind : {"raw", "nodur"}, dur : {0}] \cup [kind : {"json"}, dur : 1..MaxDuration]
\* The shapes of the racing specification: a passthrough line, a short and a long job.
RaceShapes == {s \in Shapes : s.kind = "raw" \/ (s.kind = "json" /\ s.dur \in {1, MaxDuration})}

SeqsUpTo(S, n) == UNION {[1..k -> S] : k \in 0..n}

Stamp(f, shapes) ==
  [i \in 1..Len(shapes) |->
     [id |-> (f - 1) * MaxLines + i, kind |-> shapes[i].kind, dur |-> shapes[i].dur]]

Dirs(S) == UNION {[D -> SeqsUpTo(S, MaxLines)] : D \in SUBSET Files}

RECURSIVE SumLen(_, _)
SumLen(dir, D) ==
  IF D = {} THEN 0
  ELSE LET f == CHOOSE x \in D : TRUE IN Len(dir[f]) + SumLen(dir, D \ {f})

\* Job files as the producers write them: no file without lines.
RaceDirs ==
  {d \in Dirs(RaceShapes) :
     /\ \A f \in DOMAIN d : Len(d[f]) > 0
     /\ SumLen(d, DOMAIN d) <= MaxItems}

MkTree(dir, arts) ==
  [to_stt |-> [f \in DOMAIN dir |-> Stamp(f, dir[f])], from_stt |-> arts]

Tip == history[Len(history)]

RECURSIVE SortedSeq(_)
SortedSeq(S) ==
  IF S = {} THEN <<>>
  ELSE LET m == CHOOSE x \in S : \A y \in S : x <= y
       IN <<m>> \o SortedSeq(S \ {m})

\* ---------------------------------------------------------- git_utils.py
\* (mutant) the fetch without the reset --hard and the clean
ResetRepo_NoHardReset(h) ==
  /\ head' = [head EXCEPT ![h] = Len(history)]
  /\ wc' = wc
  /\ synced' = [synced EXCEPT ![h] = wc[h]]

\* (mutant) the reset --hard and the clean without the fetch and the pull
ResetRepo_NoFetch(h) ==
  /\ head' = head
  /\ wc' = [wc EXCEPT ![h] = history[head[h]].tree]
  /\ synced' = [synced EXCEPT ![h] = history[head[h]].tree]

\* reset_repo: fetch, reset --hard origin/<branch>, clean -fd, pull.
ResetRepo(h) ==
  /\ head' = [head EXCEPT ![h] = Len(history)]
  /\ wc' = [wc EXCEPT ![h] = Tip.tree]
  /\ synced' = [synced EXCEPT ![h] = Tip.tree]

\* queue_dir is a clone of the queue repository
RepoReachable == repo_ok = TRUE /\ attempts = [h \in Hosts |-> 0]

\* git.Repo(repo_path) raises (NoSuchPathError, InvalidGitRepositoryError):
\* reset_repo logs and raises again; the except clause of the caller's loop
\* (out_queue, git_repo_transaction) logs, sleeps and starts the loop over.
ResetRepoRaises(h) ==
  /\ UNCHANGED notsetup
  /\ pc[h] = "reset" /\ ~repo_ok /\ attempts[h] < MaxAttempts
  /\ attempts' = [attempts EXCEPT ![h] = @ + 1]
  /\ repo_ok' = repo_ok

\* _get_file_changes: deleted, modified and untracked files against the index.
HasChanges(h) == wc[h] # history[head[h]].tree

\* (mutant) a push that the remote never rejects
PushRejected_Never(h) == FALSE

\* origin.push(): a non-fast-forward push is flagged REJECTED.
PushRejected(h) == head[h] # Len(history)

\* (mutant) push_changes that ignores the flags of push_infos
PushResult_IgnoreFlags(h) == TRUE

\* push_changes: TRUE when there is nothing to commit or the push went through.
PushResult(h) == ~HasChanges(h) \/ ~PushRejected(h)

\* The commit and the push.  The accepted commit becomes the shared tip;
\* "after" records the tip that had made this operation's last publish fail.
PushChanges(h, msg) ==
  IF HasChanges(h) /\ ~PushRejected(h)
  THEN /\ history' = Append(history, [tree |-> wc[h], by |-> h, msg |-> msg,
                                      after |-> lostTo[h]])
       /\ head' = [head EXCEPT ![h] = Len(history) + 1]
  ELSE UNCHANGED <<history, head>>

\* ------------------------------------------- git_utils.py, file by file
Paths == 1..NumPaths
\* The content at a path: 0 no file, 1 the committed content, 2 an edited one.
Trees == [Paths -> {0, 1, 2}]
NoTree == [p \in Paths |-> 0]

\* no push_changes is followed file by file
IdleChunks ==
  /\ work_tree = NoTree /\ index = NoTree /\ local_commit = NoTree
  /\ origin = <<NoTree>> /\ todo = <<>> /\ staged = 0
  /\ ppc = "off" /\ observed = {}

\* _get_file_changes: repo.index.diff(None) and repo.untracked_files
Deleted == SortedSeq({p \in Paths : index[p] # 0 /\ work_tree[p] = 0})
Modified ==
  SortedSeq({p \in Paths : index[p] # 0 /\ work_tree[p] # 0 /\ work_tree[p] # index[p]})
Untracked == SortedSeq({p \in Paths : index[p] = 0 /\ work_tree[p] # 0})

\* (mutant) one chunk only, the rest of the list dropped
Chunks_FirstOnly(op, items) ==
  IF items = <<>> THEN <<>>
  ELSE <<[op |-> op,
          paths |-> SubSeq(items, 1, IF Len(items) < ChunkSize THEN Len(items)
                                                              ELSE ChunkSize)]>>

\* _process_in_chunks: items[i:i + CHUNK_SIZE] for i in range(0, len(items), CHUNK_SIZE)
Chunks(op, items) ==
  [k \in 1..((Len(items) + ChunkSize - 1) \div ChunkSize) |->
     [op |-> op,
      paths |-> SubSeq(items, (k - 1) * ChunkSize + 1,
                       IF k * ChunkSize < Len(items) THEN k * ChunkSize ELSE Len(items))]]

\* repo.index.remove(chunk, working_tree=True) or repo.index.add(chunk)
StageInto(idx, chunk) ==
  LET S == {chunk.paths[i] : i \in 1..Len(chunk.paths)} IN
  [p \in Paths |-> IF p \notin S THEN idx[p]
                   ELSE IF chunk.op = "remove" THEN 0 ELSE work_tree[p]]

\* push_changes up to the chunk lists; nothing to add: return True.
GetFileChanges ==
  /\ UNCHANGED notchunk
  /\ ppc = "diff"
  /\ todo' = Chunks("remove", Deleted) \o Chunks("add", Modified \o Untracked)
  /\ ppc' = IF Deleted \o Modified \o Untracked = <<>> THEN "done" ELSE "stage"
  /\ UNCHANGED <<work_tree, index, local_commit, origin, staged, observed>>

\* one round of the loop of _process_in_chunks
StageChunk ==
  /\ UNCHANGED notchunk
  /\ ppc = "stage" /\ todo # <<>>
  /\ index' = StageInto(index, Head(todo))
  /\ todo' = Tail(todo)
  /\ staged' = staged + 1
  /\ UNCHANGED <<work_tree, local_commit, origin, ppc, observed>>

\* repo.index.commit(commit_message), after both lists were staged
Commit ==
  /\ UNCHANGED notchunk
  /\ ppc = "stage" /\ todo = <<>>
  /\ local_commit' = index
  /\ ppc' = "push"
  /\ UNCHANGED <<work_tree, index, origin, todo, staged, observed>>

\* (mutant) a remote that takes every push
NonFastForward_Never == FALSE

\* The host had origin[1] checked out: its commit does not descend from a
\* tip another host has pushed since.
NonFastForward == Len(origin) > 1

\* origin.push(): the one commit becomes the shared tip and push_changes
\* returns True ("done"), or the push is flagged REJECTED and push_changes
\* returns False ("failed").
Push ==
  /\ UNCHANGED notchunk
  /\ ppc = "push"
  /\ IF NonFastForward
     THEN origin' = origin /\ ppc' = "failed"
     ELSE origin' = Append(origin, local_commit) /\ ppc' = "done"
  /\ UNCHANGED <<work_tree, index, local_commit, todo, staged, observed>>

\* another host gets a commit of its own accepted
RivalPush ==
  /\ UNCHANGED notchunk
  /\ ppc \in {"diff", "stage", "push"} /\ Len(origin) <= MaxRivals
  /\ \E t \in [Paths -> {0, 1}] :
       t # origin[Len(origin)] /\ origin' = Append(origin, t)
  /\ UNCHANGED <<work_tree, index, local_commit, todo, staged, ppc, observed>>

\* a git command of push_changes raises: logged and raised again
PushChangesRaises ==
  /\ UNCHANGED notchunk
  /\ ppc \in {"stage", "push"}
  /\ ppc' = "raised"
  /\ UNCHANGED <<work_tree, index, local_commit, origin, todo, staged, observed>>

\* another host's reset_repo: it gets the tree of the shared tip
Fetch ==
  /\ UNCHANGED notchunk
  /\ ppc # "off"
  /\ observed' = observed \cup {origin[Len(origin)]}
  /\ UNCHANGED <<work_tree, index, local_commit, origin, todo, staged, ppc>>

\* The host has the shared tip checked out and has added, edited and
\* deleted files in its working tree.
InitChunks ==
  /\ \E t \in [Paths -> {0, 1}] : origin = <<t>> /\ index = t /\ local_commit = t
  /\ work_tree \in Trees
  /\ \A p \in Paths : index[p] = 0 => work_tree[p] \in {0, 2}
  /\ todo = <<>> /\ staged = 0 /\ ppc = "diff" /\ observed = {}

NextChunks == GetFileChanges \/ StageChunk \/ Commit \/ Push \/ PushChangesRaises \/ Fetch

\* --------------------------------------------------- server_out_queue.py
NotFound == [found |-> FALSE, raised |-> FALSE, file |-> 0, index |-> 0, line |-> NoLine]
Hit(f, i, l) == [found |-> TRUE, raised |-> FALSE, file |-> f, index |-> i, line |-> l]
Raised == [found |-> FALSE, raised |-> TRUE, file |-> 0, index |-> 0, line |-> NoLine]

\* (mutant) a scan that passes over the lines that are not JSON
RECURSIVE LessThanLines_SkipRaw(_, _, _, _)
LessThanLines_SkipRaw(f, lines, i, limit) ==
  IF i > Len(lines) THEN NotFound
  ELSE IF lines[i].kind = "nodur" THEN Raised
  ELSE IF lines[i].kind = "json" /\ lines[i].dur < limit THEN Hit(f, i, lines[i])
  ELSE LessThanLines_SkipRaw(f, lines, i + 1, limit)

\* (mutant) a scan that returns the shortest eligible job of a file
LessThanLines_Shortest(f, lines, i, limit) ==
  LET E == {j \in i..Len(lines) :
              lines[j].kind = "raw" \/ (lines[j].kind = "json" /\ lines[j].dur < limit)}
  IN IF E = {} THEN NotFound
     ELSE LET j == CHOOSE x \in E : \A y \in E :
                     lines[x].dur < lines[y].dur \/ (lines[x].dur = lines[y].dur /\ x <= y)
          IN Hit(f, j, lines[j])

\* (mutant) a scan that takes a duration equal to the limit as well
RECURSIVE LessThanLines_AtMost(_, _, _, _)
LessThanLines_AtMost(f, lines, i, limit) ==
  IF i > Len(lines) THEN NotFound
  ELSE IF lines[i].kind = "raw" THEN Hit(f, i, lines[i])
  ELSE IF lines[i].kind = "nodur" THEN Raised
  ELSE IF lines[i].dur <= limit THEN Hit(f, i, lines[i])
  ELSE LessThanLines_AtMost(f, lines, i + 1, limit)

\* The less_than scan of one file from line i on.
RECURSIVE LessThanLines(_, _, _, _)
LessThanLines(f, lines, i, limit) ==
  IF i > Len(lines) THEN NotFound
  ELSE IF lines[i].kind = "raw" THEN Hit(f, i, lines[i])
  ELSE IF lines[i].kind = "nodur" THEN Raised
  ELSE IF lines[i].dur < limit THEN Hit(f, i, lines[i])
  ELSE LessThanLines(f, lines, i + 1, limit)

RECURSIVE LessThanFiles(_, _, _, _)
LessThanFiles(dir, input_files, k, limit) ==
  IF k > Len(input_files) THEN NotFound
  ELSE LET r == LessThanLines(input_files[k], dir[input_files[k]], 1, limit)
       IN IF r.found \/ r.raised THEN r
          ELSE LessThanFiles(dir, input_files, k + 1, limit)

\* (mutant) a scan whose fallback is the last job seen, not the first
RECURSIVE GreaterThanLines_LastSeen(_, _, _, _, _)
GreaterThanLines_LastSeen(f, lines, i, limit, second) ==
  IF i > Len(lines) THEN [NotFound EXCEPT !.file = second.file,
                                         !.index = second.index,
                                         !.line = second.line]
  ELSE IF lines[i].kind = "raw" THEN Hit(f, i, lines[i])
  ELSE IF lines[i].kind = "nodur" THEN Raised
  ELSE IF lines[i].dur > limit THEN Hit(f, i, lines[i])
  ELSE GreaterThanLines_LastSeen(f, lines, i + 1, limit, Hit(f, i, lines[i]))

\* The better_greater_than scan; second is the fallback seen so far.
RECURSIVE GreaterThanLines(_, _, _, _, _)
GreaterThanLines(f, lines, i, limit, second) ==
  IF i > Len(lines) THEN [NotFound EXCEPT !.file = second.file,
                                         !.index = second.index,
                                         !.line = second.line]
  ELSE IF lines[i].kind = "raw" THEN Hit(f, i, lines[i])
  ELSE IF lines[i].kind = "nodur" THEN Raised
  ELSE IF lines[i].dur > limit THEN Hit(f, i, lines[i])
  ELSE IF second.line = NoLine
       THEN GreaterThanLines(f, lines, i + 1, limit, Hit(f, i, lines[i]))
       ELSE GreaterThanLines(f, lines, i + 1, limit, second)

RECURSIVE GreaterThanFiles(_, _, _, _, _)
GreaterThanFiles(dir, input_files, k, limit, second) ==
  IF k > Len(input_files)
  THEN \* not found: the fallback; with none, select_file is "" and .name raises
       IF second.line = NoLine THEN Raised ELSE Hit(second.file, second.index, second.line)
  ELSE LET r == GreaterThanLines(input_files[k], dir[input_files[k]], 1, limit, second)
       IN IF r.found \/ r.raised THEN r
          ELSE GreaterThanFiles(dir, input_files, k + 1, limit, r)

SelectLine(dir, type, limit) ==
  IF type = "less_than"
  THEN LessThanFiles(dir, SortedSeq(DOMAIN dir), 1, limit)
  ELSE GreaterThanFiles(dir, SortedSeq(DOMAIN dir), 1, limit, NotFound)

\* (mutant) a rewrite that keeps only the lines above the selected one
RemainingLines_Truncate(lines, i) == [j \in 1..(i - 1) |-> lines[j]]

\* lines[:select_line_index] + lines[select_line_index + 1:]
RemainingLines(lines, i) ==
  [j \in 1..(Len(lines) - 1) |-> IF j < i THEN lines[j] ELSE lines[j + 1]]

\* The rewrite of select_file: unlinked when nothing remains.
RemoveLine(dir, f, i) ==
  IF RemainingLines(dir[f], i) = <<>>
  THEN [g \in DOMAIN dir \ {f} |-> dir[g]]
  ELSE [dir EXCEPT ![f] = RemainingLines(dir[f], i)]

OutQueueReset(h) ==
  /\ UNCHANGED notq
  /\ h \in Servers /\ pc[h] = "reset"
  /\ repo_ok
  /\ ResetRepo(h)
  /\ pc' = [pc EXCEPT ![h] = "scan"]
  /\ UNCHANGED <<history, ret, bv_list, commit_msg, processed, saved,
                 limit_type, duration_limit, force, lostTo>>

\* The scan, the rewrite of select_file and of bv_list.txt.  Without a line
\* out_queue returns None and server_run.main leaves its loop; an exception
\* is logged, the loop sleeps and starts over.
OutQueueSelect(h) ==
  /\ UNCHANGED notq
  /\ h \in Servers /\ pc[h] = "scan"
  /\ LET dir == wc[h].to_stt
         r == SelectLine(dir, limit_type[h], duration_limit)
     IN IF DOMAIN dir = {} \/ (~r.found /\ ~r.raised)
        THEN /\ pc' = [pc EXCEPT ![h] = "exit"]
             /\ ret' = [ret EXCEPT ![h] = "None"]
             /\ UNCHANGED <<wc, bv_list, commit_msg>>
        ELSE IF r.raised
        THEN /\ pc' = [pc EXCEPT ![h] = "reset"]
             /\ UNCHANGED <<wc, ret, bv_list, commit_msg>>
        ELSE /\ wc' = [wc EXCEPT ![h].to_stt = RemoveLine(dir, r.file, r.index)]
             /\ bv_list' = [bv_list EXCEPT ![h] = r.line]
             /\ commit_msg' = [commit_msg EXCEPT ![h] = <<r.file, r.line.id>>]
             /\ pc' = [pc EXCEPT ![h] = "push"]
             /\ ret' = ret
  /\ UNCHANGED <<history, head, processed, saved, limit_type, duration_limit, force, synced, lostTo>>

\* push_changes; on True out_queue returns found and server_run.main calls
\* process_input on bv_list.txt and out_queue again; on False: sleep, continue.
OutQueuePush(h) ==
  /\ UNCHANGED notq
  /\ h \in Servers /\ pc[h] = "push"
  /\ PushChanges(h, commit_msg[h])
  /\ pc' = [pc EXCEPT ![h] = "reset"]
  /\ IF PushResult(h)
     THEN /\ ret' = [ret EXCEPT ![h] = "True"]
          /\ processed' = [processed EXCEPT ![h] = Append(@, bv_list[h])]
          /\ lostTo' = [lostTo EXCEPT ![h] = 0]
     ELSE /\ lostTo' = [lostTo EXCEPT ![h] = Len(history)]
          /\ UNCHANGED <<ret, processed>>
  /\ UNCHANGED <<wc, bv_list, commit_msg, saved, limit_type, duration_limit, force, synced>>

\* A git command of reset_repo or push_changes raises GitCommandError: the
\* except clause of the loop logs it, sleeps and starts over.
GitError(h) ==
  /\ UNCHANGED notq
  /\ pc[h] \in {"reset", "push"}
  /\ pc' = [pc EXCEPT ![h] = "reset"]
  /\ UNCHANGED <<history, wc, head, ret, bv_list, commit_msg, processed,
                 saved, limit_type, duration_limit, force, synced, lostTo>>

\* The server process is killed after it rewrote select_file and bv_list.txt
\* and before its publish is accepted, and started again: the files on disk
\* stay as they are, and server_run.main calls out_queue anew.
Crash(h) ==
  /\ UNCHANGED notq
  /\ h \in Servers /\ pc[h] = "push"
  /\ pc' = [pc EXCEPT ![h] = "reset"]
  /\ ret' = [ret EXCEPT ![h] = "crashed"]
  /\ commit_msg' = [commit_msg EXCEPT ![h] = <<>>]
  /\ lostTo' = [lostTo EXCEPT ![h] = 0]
  /\ UNCHANGED <<history, wc, head, bv_list, processed, saved, limit_type,
                 duration_limit, force, synced>>

\* ------------------------------------- client/out_queue.py, git_repo_transaction
\* action(): every file of from_stt that shutil.move can move to DST_DIR.
Movable(h) == {a \in wc[h].from_stt : force[h] \/ a \notin saved[h]}

TxReset(h) ==
  /\ UNCHANGED notq
  /\ h \in Clients /\ pc[h] = "reset"
  /\ repo_ok
  /\ ResetRepo(h)
  /\ pc' = [pc EXCEPT ![h] = "action"]
  /\ UNCHANGED <<history, ret, bv_list, commit_msg, processed, saved,
                 limit_type, duration_limit, force, lostTo>>

\* (mutant) a transaction without the "if not commit_msg" return
NothingToDo_Never(moved) == FALSE

\* action() returns None when it moved no file: "if not commit_msg".
NothingToDo(moved) == moved = {}

\* out_queue.py calls git_repo_transaction(QUEUE_DIR, action): no callback.
NoCallback == success_func = FALSE /\ on_success = <<>>

\* action_func(); "if not commit_msg: return True".
TxAction(h) ==
  /\ UNCHANGED notq
  /\ h \in Clients /\ pc[h] = "action"
  /\ wc' = [wc EXCEPT ![h].from_stt = @ \ Movable(h)]
  /\ saved' = [saved EXCEPT ![h] = @ \cup Movable(h)]
  /\ IF NothingToDo(Movable(h))
     THEN /\ commit_msg' = [commit_msg EXCEPT ![h] = <<>>]
          /\ pc' = [pc EXCEPT ![h] = "done"]
          /\ ret' = [ret EXCEPT ![h] = "True"]
     ELSE /\ commit_msg' = [commit_msg EXCEPT ![h] = <<Cardinality(Movable(h))>>]
          /\ pc' = [pc EXCEPT ![h] = "push"]
          /\ ret' = ret
  /\ UNCHANGED <<history, head, bv_list, processed, limit_type, duration_limit, force,
                 synced, lostTo>>

\* push_changes; True: success_func(commit_msg) if there is one, return
\* True; False: sleep(retry_interval), loop.
TxPush(h) ==
  /\ UNCHANGED notcb
  /\ h \in Clients /\ pc[h] = "push"
  /\ PushChanges(h, commit_msg[h])
  /\ success_func' = success_func
  /\ IF PushResult(h)
     THEN /\ pc' = [pc EXCEPT ![h] = "done"]
          /\ ret' = [ret EXCEPT ![h] = "True"]
          /\ lostTo' = lostTo
          /\ on_success' = IF success_func THEN Append(on_success, commit_msg[h])
                                           ELSE on_success
     ELSE /\ pc' = [pc EXCEPT ![h] = "reset"]
          /\ lostTo' = [lostTo EXCEPT ![h] = Len(history)]
          /\ ret' = ret
          /\ on_success' = on_success
  /\ UNCHANGED <<wc, bv_list, commit_msg, processed, saved, limit_type, duration_limit,
                 force, synced>>

\* ------------------------------------------------------ client/in_queue.py
NoInput == [name |-> 0, lines |-> <<>>]

\* no in_queue was started
IdleIn == input_path = NoInput /\ enqueued = 0

\* The lines of the n-th input file, told apart from every line queued before.
StampInput(n, f, shapes) ==
  [i \in 1..Len(shapes) |->
     [id |-> (n * MaxFiles + f - 1) * MaxLines + i, kind |-> shapes[i].kind,
      dur |-> shapes[i].dur]]

\* The lines of the input files: a passthrough line, a short job.
InputShapes == {s \in Shapes : s.kind = "raw" \/ (s.kind = "json" /\ s.dur = 1)}

\* The files in_queue may be started on: any name, any lines, none included.
Inputs(n) ==
  {[name |-> f, lines |-> StampInput(n, f, sh)] :
     f \in Files, sh \in SeqsUpTo(InputShapes, MaxLines)}

\* (mutant) a copy that leaves a file without lines out of to_stt
CopyInto_SkipEmpty(dir, inp) ==
  IF inp.lines = <<>> THEN dir
  ELSE [g \in DOMAIN dir \cup {inp.name} |-> IF g = inp.name THEN inp.lines ELSE dir[g]]

\* shutil.copy(input_path, target_dir): target_dir/<name> is created or replaced
CopyInto(dir, inp) ==
  [g \in DOMAIN dir \cup {inp.name} |-> IF g = inp.name THEN inp.lines ELSE dir[g]]

\* in_queue is started on an input file
InQueueStart(h) ==
  /\ UNCHANGED notin
  /\ h \in Producers /\ pc[h] = "idle" /\ enqueued < MaxEnqueues
  /\ enqueued' = enqueued + 1
  /\ input_path' \in Inputs(enqueued + 1)
  /\ pc' = [pc EXCEPT ![h] = "reset"]
  /\ ret' = [ret EXCEPT ![h] = "running"]
  /\ UNCHANGED <<history, wc, head, bv_list, commit_msg, processed, saved,
                 limit_type, duration_limit, force, synced, lostTo>>

InQueueReset(h) ==
  /\ UNCHANGED notin /\ UNCHANGED invars
  /\ h \in Producers /\ pc[h] = "reset"
  /\ repo_ok
  /\ ResetRepo(h)
  /\ pc' = [pc EXCEPT ![h] = "copy"]
  /\ UNCHANGED <<history, ret, bv_list, commit_msg, processed, saved,
                 limit_type, duration_limit, force, lostTo>>

\* shutil.copy and the commit message with the number of lines
InQueueCopy(h) ==
  /\ UNCHANGED notin /\ UNCHANGED invars
  /\ h \in Producers /\ pc[h] = "copy"
  /\ wc' = [wc EXCEPT ![h].to_stt = CopyInto(@, input_path)]
  /\ commit_msg' = [commit_msg EXCEPT ![h] = <<input_path.name, Len(input_path.lines)>>]
  /\ pc' = [pc EXCEPT ![h] = "push"]
  /\ UNCHANGED <<history, head, ret, bv_list, processed, saved, limit_type,
                 duration_limit, force, synced, lostTo>>

\* push_changes; True: the input file is moved away and the loop left;
\* False: sleep(10), continue.
InQueuePush(h) ==
  /\ UNCHANGED notin
  /\ h \in Producers /\ pc[h] = "push"
  /\ PushChanges(h, commit_msg[h])
  /\ IF PushResult(h)
     THEN /\ pc' = [pc EXCEPT ![h] = "idle"]
          /\ ret' = [ret EXCEPT ![h] = "None"]
          /\ lostTo' = [lostTo EXCEPT ![h] = 0]
          /\ input_path' = NoInput
          /\ enqueued' = enqueued
     ELSE /\ pc' = [pc EXCEPT ![h] = "reset"]
          /\ lostTo' = [lostTo EXCEPT ![h] = Len(history)]
          /\ ret' = ret
          /\ UNCHANGED invars
  /\ UNCHANGED <<wc, bv_list, commit_msg, processed, saved, limit_type,
                 duration_limit, force, synced>>

ProducerNext(h) ==
  \/ InQueueStart(h)
  \/ InQueueReset(h)
  \/ InQueueCopy(h)
  \/ InQueuePush(h)
  \/ GitError(h)

\* ----------------------------------------- ai_utils.py: BatchTaskProcessor
Providers == {"p1", "p2"}

FixTasks == 1..MaxFixFiles

\* fix_summaries is not called
NoFix ==
  /\ fix_files = 0 /\ fix_queue = <<>> /\ failed_queue = <<>>
  /\ producer_done = FALSE /\ fix_stop = FALSE /\ task_count = 0
  /\ fix_pc = "off"
  /\ fix_wpc = [w \in Providers |-> "off"]
  /\ fix_task = [w \in Providers |-> 0]
  /\ fix_taken = [i \in FixTasks |-> 0]
  /\ fix_outcomes = [i \in FixTasks |-> <<>>]
Tasks == 1..NumTasks
NoTask == [id |-> 0, content |-> 0, extra |-> 0]

\* add_task(task_id, content, extra_info): the tuple put on the queue
MkTask(i) == [id |-> i, content |-> 10 + i, extra |-> 20 + i]

\* (mutant) a get that leaves the task on the queue
QueueGet_Peek(q) == q

\* queue.Queue.get: the oldest task leaves the queue
QueueGet(q) == Tail(q)

\* (mutant) a requeue that drops the user context
Requeued_NoExtra(t) == [t EXCEPT !.extra = 0]

\* self.task_queue.put(task): the very tuple the worker took
Requeued(t) == t

\* __init__: an empty queue, the event clear, one started worker per config
InitPool ==
  /\ task_queue = <<>>
  /\ unfinished = 0
  /\ stop_event = FALSE
  /\ wpc = [w \in Providers |-> "loop"]
  /\ task = [w \in Providers |-> NoTask]
  /\ mpc = "add"
  /\ submitted = 0
  /\ results = [i \in Tasks |-> <<>>]
  /\ failures = {}
  /\ reliable \in SUBSET Providers
  /\ cb_raises \in BOOLEAN

\* no processor constructed
IdlePool ==
  /\ task_queue = <<>>
  /\ unfinished = 0
  /\ stop_event = FALSE
  /\ wpc = [w \in Providers |-> "exited"]
  /\ task = [w \in Providers |-> NoTask]
  /\ mpc = "done"
  /\ submitted = 0
  /\ results = [i \in Tasks |-> <<>>]
  /\ failures = {}
  /\ reliable = {}
  /\ cb_raises = FALSE

\* while not self.stop_event.is_set() or not self.task_queue.empty()
WorkerLoop(w) ==
  /\ wpc[w] = "loop"
  /\ wpc' = [wpc EXCEPT ![w] = IF ~stop_event \/ task_queue # <<>>
                                THEN "get" ELSE "exited"]
  /\ UNCHANGED <<task_queue, unfinished, stop_event, task, mpc, submitted,
                 results, failures, reliable, cb_raises>>
  /\ UNCHANGED notpool

\* task = self.task_queue.get(timeout=1); queue.Empty: continue
WorkerGet(w) ==
  /\ wpc[w] = "get"
  /\ IF task_queue # <<>>
     THEN /\ task' = [task EXCEPT ![w] = Head(task_queue)]
          /\ task_queue' = QueueGet(task_queue)
          /\ wpc' = [wpc EXCEPT ![w] = "call"]
     ELSE /\ wpc' = [wpc EXCEPT ![w] = "loop"]
          /\ UNCHANGED <<task, task_queue>>
  /\ UNCHANGED <<unfinished, stop_event, mpc, submitted, results, failures,
                 reliable, cb_raises>>
  /\ UNCHANGED notpool

\* analyze_stock_market and is_ai_response_error: the call answers, or it
\* raises or answers with an error keyword and RuntimeError is raised.
WorkerCall(w) ==
  /\ wpc[w] = "call"
  /\ \E ok \in BOOLEAN :
       /\ (w \in reliable) => ok
       /\ wpc' = [wpc EXCEPT ![w] = IF ok THEN "callback" ELSE "requeue"]
       /\ failures' = IF ok THEN failures ELSE failures \cup {<<task[w].id, w>>}
  /\ UNCHANGED <<task_queue, unfinished, stop_event, task, mpc, submitted,
                 results, reliable, cb_raises>>
  /\ UNCHANGED notpool

\* self.on_result_callback(task_id, ai_name, summary, extra_info), inside the
\* try block: an exception it raises lands in the except clause.
WorkerCallback(w) ==
  /\ wpc[w] = "callback"
  /\ results' = [results EXCEPT ![task[w].id] = Append(@, w)]
  /\ \E raised \in BOOLEAN :
       /\ raised => cb_raises
       /\ wpc' = [wpc EXCEPT ![w] = IF raised THEN "requeue" ELSE "task_done"]
  /\ UNCHANGED <<task_queue, unfinished, stop_event, task, mpc, submitted,
                 failures, reliable, cb_raises>>
  /\ UNCHANGED notpool

\* self.task_queue.task_done() after the callback
WorkerTaskDone(w) ==
  /\ wpc[w] = "task_done"
  /\ unfinished' = unfinished - 1
  /\ task' = [task EXCEPT ![w] = NoTask]
  /\ wpc' = [wpc EXCEPT ![w] = "loop"]
  /\ UNCHANGED <<task_queue, stop_event, mpc, submitted, results, failures,
                 reliable, cb_raises>>
  /\ UNCHANGED notpool

\* except Exception: self.task_queue.put(task)
WorkerRequeue(w) ==
  /\ wpc[w] = "requeue"
  /\ task_queue' = Append(task_queue, Requeued(task[w]))
  /\ unfinished' = unfinished + 1
  /\ wpc' = [wpc EXCEPT ![w] = "retire"]
  /\ UNCHANGED <<stop_event, task, mpc, submitted, results, failures,
                 reliable, cb_raises>>
  /\ UNCHANGED notpool

\* self.task_queue.task_done(); break
WorkerRetire(w) ==
  /\ wpc[w] = "retire"
  /\ unfinished' = unfinished - 1
  /\ wpc' = [wpc EXCEPT ![w] = "exited"]
  /\ UNCHANGED <<task_queue, stop_event, task, mpc, submitted, results,
                 failures, reliable, cb_raises>>
  /\ UNCHANGED notpool

\* add_task: put on the unbounded queue.Queue()
AddTask ==
  /\ mpc = "add" /\ submitted < NumTasks
  /\ task_queue' = Append(task_queue, MkTask(submitted + 1))
  /\ unfinished' = unfinished + 1
  /\ submitted' = submitted + 1
  /\ UNCHANGED <<stop_event, wpc, task, mpc, results, failures, reliable, cb_raises>>
  /\ UNCHANGED notpool

\* the caller calls wait_and_stop
WaitAndStop ==
  /\ mpc = "add"
  /\ mpc' = "join"
  /\ UNCHANGED <<task_queue, unfinished, stop_event, wpc, task, submitted,
                 results, failures, reliable, cb_raises>>
  /\ UNCHANGED notpool

\* self.task_queue.join() returns once unfinished_tasks is 0; self.stop_event.set()
QueueJoin ==
  /\ mpc = "join" /\ unfinished = 0
  /\ stop_event' = TRUE
  /\ mpc' = "join_threads"
  /\ UNCHANGED <<task_queue, unfinished, wpc, task, submitted, results,
                 failures, reliable, cb_raises>>
  /\ UNCHANGED notpool

\* for t in self.threads: t.join()
JoinThreads ==
  /\ mpc = "join_threads" /\ \A w \in Providers : wpc[w] = "exited"
  /\ mpc' = "done"
  /\ UNCHANGED <<task_queue, unfinished, stop_event, wpc, task, submitted,
                 results, failures, reliable, cb_raises>>
  /\ UNCHANGED notpool

WorkerNext(w) ==
  \/ WorkerLoop(w)
  \/ WorkerGet(w)
  \/ WorkerCall(w)
  \/ WorkerCallback(w)
  \/ WorkerTaskDone(w)
  \/ WorkerRequeue(w)
  \/ WorkerRetire(w)

NextPool ==
  \/ \E w \in Providers : WorkerNext(w)
  \/ AddTask
  \/ WaitAndStop
  \/ QueueJoin
  \/ JoinThreads

\* ------------------------- ai_utils.py: AIConfigManager, pool construction
\* no pool is built from the provider list
NoPoolBuilt ==
  /\ open_ai_list = <<>> /\ is_failed = [p \in Providers |-> FALSE]
  /\ select_open_ai = "none" /\ entry = "BatchTaskProcessor" /\ max_workers = 0
  /\ threads = <<>> /\ tasks_left = 0 /\ handed = {} /\ cpc = "off"

\* the elements of a sequence that satisfy Keep, in order
RECURSIVE SelectNames(_, _)
SelectNames(list, keep) ==
  IF list = <<>> THEN <<>>
  ELSE (IF Head(list) \in keep THEN <<Head(list)>> ELSE <<>>) \o
       SelectNames(Tail(list), keep)

\* AIConfigManager.get_all
GetAll(include_failed) ==
  IF include_failed THEN open_ai_list
  ELSE SelectNames(open_ai_list, {p \in Providers : ~is_failed[p]})

\* AIConfigManager.get_selected: the selected config; when it is missing or
\* failed, the first working one if there is any; "none" stands for {}.
GetSelected ==
  LET found == \E i \in 1..Len(open_ai_list) : open_ai_list[i] = select_open_ai
      result == IF found THEN select_open_ai ELSE "none"
  IN IF (~found \/ is_failed[select_open_ai]) /\ GetAll(FALSE) # <<>>
     THEN GetAll(FALSE)[1]
     ELSE result

\* min(len(ai_configs), max_workers) if max_workers else len(ai_configs)
NumThreads(ai_configs) ==
  IF max_workers # 0
  THEN (IF Len(ai_configs) < max_workers THEN Len(ai_configs) ELSE max_workers)
  ELSE Len(ai_configs)

\* BatchTaskProcessor.__init__ and _start_workers: num_threads is 1 without
\* configs and the one worker gets None.  process_tasks_distributed: without
\* configs no thread is started and the caller loops over the tasks itself.
Construct ==
  /\ UNCHANGED notcfg
  /\ cpc = "new"
  /\ LET ai_configs == GetAll(FALSE) IN
     threads' = IF ai_configs # <<>>
                THEN [i \in 1..NumThreads(ai_configs) |-> ai_configs[i]]
                ELSE IF entry = "BatchTaskProcessor" THEN <<"None">> ELSE <<>>
  /\ cpc' = "running"
  /\ UNCHANGED <<open_ai_list, is_failed, select_open_ai, entry, max_workers,
                 tasks_left, handed>>

\* A worker takes a task and calls analyze_stock_market(content,
\* ai_config=cfg); get_single_response replaces a None by get_selected()
\* and makes no call without an API key.
TakeTask(i) ==
  /\ UNCHANGED notcfg
  /\ cpc = "running" /\ tasks_left > 0 /\ i \in 1..Len(threads)
  /\ handed' = handed \cup
       {<<i, IF threads[i] = "None" THEN GetSelected ELSE threads[i]>>}
  /\ tasks_left' = tasks_left - 1
  /\ UNCHANGED <<open_ai_list, is_failed, select_open_ai, entry, max_workers,
                 threads, cpc>>

\* process_tasks_distributed without configs:
\* [("default", analyze_stock_market(content)) for content in tasks]
CallerTakesTask ==
  /\ UNCHANGED notcfg
  /\ cpc = "running" /\ tasks_left > 0
  /\ entry = "process_tasks_distributed" /\ threads = <<>>
  /\ handed' = handed \cup {<<0, GetSelected>>}
  /\ tasks_left' = tasks_left - 1
  /\ UNCHANGED <<open_ai_list, is_failed, select_open_ai, entry, max_workers,
                 threads, cpc>>

\* every task was taken: the pool is done
PoolDone ==
  /\ UNCHANGED notcfg
  /\ cpc = "running" /\ tasks_left = 0
  /\ cpc' = "done"
  /\ UNCHANGED <<open_ai_list, is_failed, select_open_ai, entry, max_workers,
                 threads, tasks_left, handed>>

\* Any provider list over Providers, any flags, any selection.
InitConfig ==
  /\ open_ai_list \in {<<>>, <<"p1">>, <<"p1", "p2">>, <<"p2", "p1">>}
  /\ is_failed \in [Providers -> BOOLEAN]
  /\ select_open_ai \in Providers \cup {"none"}
  /\ entry \in {"BatchTaskProcessor", "process_tasks_distributed"}
  /\ max_workers \in 0..Cardinality(Providers)
  /\ threads = <<>> /\ handed = {} /\ cpc = "new"
  /\ tasks_left \in 1..MaxPoolTasks

NextConfig ==
  \/ Construct
  \/ \E i \in 1..Cardinality(Providers) : TakeTask(i)
  \/ CallerTakesTask
  \/ PoolDone

\* --------------------------------- ai_utils.py: process_tasks_distributed
None == [name |-> "None", kind |-> "None", content |-> 0]

\* process_tasks_distributed is not called
NoDistCall ==
  /\ dist_configs = {} /\ dist_queue = <<>>
  /\ dist_results = [i \in Tasks |-> None]
  /\ dist_pc = [w \in Providers |-> "off"]
  /\ dist_task = [w \in Providers |-> NoTask]
  /\ dist_taken = [i \in Tasks |-> 0]
  /\ dist_main = "off"

\* The queue filled from enumerate(tasks), results = [None] * len(tasks),
\* one started thread per config (any choice of them stands for get_all()
\* and max_workers).  Without configs no queue is built: dist_queue is then
\* what the list comprehension over tasks has still to go through.
InitDist ==
  /\ dist_configs \in SUBSET Providers
  /\ dist_queue = [i \in Tasks |-> MkTask(i)]
  /\ dist_results = [i \in Tasks |-> None]
  /\ dist_pc = [w \in Providers |-> IF w \in dist_configs THEN "get" ELSE "off"]
  /\ dist_task = [w \in Providers |-> NoTask]
  /\ dist_taken = [i \in Tasks |-> 0]
  /\ dist_main = IF dist_configs = {} THEN "default" ELSE "threads"

\* index, content = task_queue.get_nowait(); queue.Empty: break
DistGet(w) ==
  /\ UNCHANGED notdist
  /\ dist_pc[w] = "get"
  /\ IF dist_queue # <<>>
     THEN /\ dist_task' = [dist_task EXCEPT ![w] = Head(dist_queue)]
          /\ dist_queue' = QueueGet(dist_queue)
          /\ dist_taken' = [dist_taken EXCEPT ![Head(dist_queue).id] = @ + 1]
          /\ dist_pc' = [dist_pc EXCEPT ![w] = "call"]
     ELSE /\ dist_pc' = [dist_pc EXCEPT ![w] = "exited"]
          /\ UNCHANGED <<dist_task, dist_queue, dist_taken>>
  /\ UNCHANGED <<dist_configs, dist_results, dist_main>>

\* analyze_stock_market answers with a summary, answers with the "Error: ..."
\* text get_single_response makes of a failed call, or something in the try
\* raises: results[index] = (name, summary) or ("Error", str(e)).
DistCall(w) ==
  /\ UNCHANGED notdist
  /\ dist_pc[w] = "call"
  /\ \E out \in {"summary", "error text", "raised"} :
       dist_results' = [dist_results EXCEPT ![dist_task[w].id] =
          [name |-> IF out = "raised" THEN "Error" ELSE w,
           kind |-> out, content |-> dist_task[w].content]]
  /\ dist_pc' = [dist_pc EXCEPT ![w] = "task_done"]
  /\ UNCHANGED <<dist_configs, dist_queue, dist_task, dist_taken, dist_main>>

\* finally: task_queue.task_done(); the loop goes on
DistTaskDone(w) ==
  /\ UNCHANGED notdist
  /\ dist_pc[w] = "task_done"
  /\ dist_pc' = [dist_pc EXCEPT ![w] = "get"]
  /\ dist_task' = [dist_task EXCEPT ![w] = NoTask]
  /\ UNCHANGED <<dist_configs, dist_queue, dist_results, dist_taken, dist_main>>

\* for t in threads: t.join(); return results
DistReturn ==
  /\ UNCHANGED notdist
  /\ dist_main = "threads" /\ \A w \in dist_configs : dist_pc[w] = "exited"
  /\ dist_main' = "returned"
  /\ UNCHANGED <<dist_configs, dist_queue, dist_results, dist_pc, dist_task, dist_taken>>

\* if not ai_configs:
\*   return [("default", analyze_stock_market(content)) for content in tasks]
DistDefault ==
  /\ UNCHANGED notdist
  /\ dist_main = "default"
  /\ IF dist_queue # <<>>
     THEN /\ \E out \in {"summary", "error text"} :
               dist_results' = [dist_results EXCEPT ![Head(dist_queue).id] =
                  [name |-> "default", kind |-> out,
                   content |-> Head(dist_queue).content]]
          /\ dist_queue' = Tail(dist_queue)
          /\ dist_main' = dist_main
     ELSE /\ dist_main' = "returned"
          /\ UNCHANGED <<dist_results, dist_queue>>
  /\ UNCHANGED <<dist_configs, dist_pc, dist_task, dist_taken>>

DistWorker(w) == DistGet(w) \/ DistCall(w) \/ DistTaskDone(w)

NextDist == DistReturn \/ DistDefault \/ \E w \in Providers : DistWorker(w)

\* ------------------------------- ai_utils.py: RateLimiter, chat_completion
Threads == {"t1", "t2"}
Names == {"a", "b"}

\* time.time() at the start of the run: far more than any interval after 0
Epoch == MaxInterval + 1

\* (mutant) a limiter that never sleeps
SleepUntil_NoSleep(t, last_time, ival) == t

\* elapsed = time.time() - last_time; if elapsed < interval:
\* time.sleep(interval - elapsed): when the sleep ends at the earliest
SleepUntil(t, last_time, ival) ==
  IF t - last_time < ival THEN t + (ival - (t - last_time)) ELSE t

InitRate ==
  /\ now = Epoch
  /\ last_times = [k \in Names |-> 0]
  /\ lock = "free"
  /\ tpc = [t \in Threads |-> "idle"]
  /\ wake = [t \in Threads |-> 0]
  /\ api_name \in [Threads -> Names]
  /\ interval \in [Names -> 0..MaxInterval]
  /\ prev_stamp = [k \in Names |-> 0]
  /\ call_at = [k \in Names |-> 0]
  /\ prev_call_at = [k \in Names |-> 0]

\* no thread calls a provider
IdleRate ==
  /\ now = Epoch
  /\ last_times = [k \in Names |-> 0]
  /\ lock = "free"
  /\ tpc = [t \in Threads |-> "off"]
  /\ wake = [t \in Threads |-> 0]
  /\ api_name = [t \in Threads |-> "a"]
  /\ interval = [k \in Names |-> 0]
  /\ prev_stamp = [k \in Names |-> 0]
  /\ call_at = [k \in Names |-> 0]
  /\ prev_call_at = [k \in Names |-> 0]

Tick ==
  /\ now < Epoch + MaxTime
  /\ now' = now + 1
  /\ UNCHANGED <<last_times, lock, tpc, wake, api_name, interval, prev_stamp,
                 call_at, prev_call_at>>
  /\ UNCHANGED notrate

\* chat_completion calls wait_if_needed; "if interval <= 0: return"
WaitIfNeeded(t) ==
  /\ tpc[t] = "idle"
  /\ tpc' = [tpc EXCEPT ![t] = IF interval[api_name[t]] <= 0 THEN "client" ELSE "lock"]
  /\ UNCHANGED <<now, last_times, lock, wake, api_name, interval, prev_stamp,
                 call_at, prev_call_at>>
  /\ UNCHANGED notrate

\* with self._lock: last_time = ...get(key, 0); elapsed = time.time() - last_time;
\* the sleep, if any, starts with the lock held
LockAndSleep(t) ==
  /\ tpc[t] = "lock" /\ lock = "free"
  /\ lock' = t
  /\ wake' = [wake EXCEPT ![t] = SleepUntil(now, last_times[api_name[t]],
                                            interval[api_name[t]])]
  /\ tpc' = [tpc EXCEPT ![t] = "sleep"]
  /\ UNCHANGED <<now, last_times, api_name, interval, prev_stamp, call_at,
                 prev_call_at>>
  /\ UNCHANGED notrate

\* the sleep is over: self._last_times[key] = time.time(); the lock is released
StampAndUnlock(t) ==
  /\ tpc[t] = "sleep" /\ now >= wake[t]
  /\ last_times' = [last_times EXCEPT ![api_name[t]] = now]
  /\ prev_stamp' = [prev_stamp EXCEPT ![api_name[t]] = last_times[api_name[t]]]
  /\ lock' = "free"
  /\ wake' = [wake EXCEPT ![t] = 0]
  /\ tpc' = [tpc EXCEPT ![t] = "client"]
  /\ UNCHANGED <<now, api_name, interval, call_at, prev_call_at>>
  /\ UNCHANGED notrate

\* create_openai_client(ai_config), then client.chat.completions.create
\* starts: the provider call
StartCall(t) ==
  /\ tpc[t] = "client"
  /\ call_at' = [call_at EXCEPT ![api_name[t]] = now]
  /\ prev_call_at' = [prev_call_at EXCEPT ![api_name[t]] = call_at[api_name[t]]]
  /\ tpc' = [tpc EXCEPT ![t] = "calling"]
  /\ UNCHANGED <<now, last_times, lock, wake, api_name, interval, prev_stamp>>
  /\ UNCHANGED notrate

\* the call returns (or raises); the thread's next call may follow
EndCall(t) ==
  /\ tpc[t] = "calling"
  /\ tpc' = [tpc EXCEPT ![t] = "idle"]
  /\ UNCHANGED <<now, last_times, lock, wake, api_name, interval, prev_stamp,
                 call_at, prev_call_at>>
  /\ UNCHANGED notrate

ThreadNext(t) ==
  \/ WaitIfNeeded(t)
  \/ LockAndSleep(t)
  \/ StampAndUnlock(t)
  \/ StartCall(t)
  \/ EndCall(t)

NextRate == Tick \/ \E t \in Threads : ThreadNext(t)

\* ------------------------------------------------------------------ queue spec
InitHosts ==
  /\ wc = [h \in Hosts |-> Tip.tree]
  /\ head = [h \in Hosts |-> 1]
  /\ pc = [h \in Hosts |-> "reset"]
  /\ ret = [h \in Hosts |-> "running"]
  /\ bv_list = [h \in Hosts |-> NoLine]
  /\ commit_msg = [h \in Hosts |-> <<>>]
  /\ processed = [h \in Hosts |-> <<>>]
  /\ saved = [h \in Hosts |-> {}]
  /\ synced = [h \in Hosts |-> Tip.tree]
  /\ lostTo = [h \in Hosts |-> 0]

InitQueue ==
  /\ \E dir \in RaceDirs, arts \in SUBSET Artifacts :
       history = <<[tree |-> MkTree(dir, arts), by |-> "init", msg |-> <<>>,
                    after |-> 0]>>
  /\ \E t \in {"less_than", "better_greater_than"} : limit_type = [h \in Hosts |-> t]
  /\ duration_limit = DurationLimit
  /\ \E b \in BOOLEAN : force = [h \in Hosts |-> b]
  /\ InitHosts
  /\ IdleIn
  /\ NoTest
  /\ NoFix
  /\ NoResults
  /\ NoDistCall
  /\ NoPoolBuilt
  /\ RepoReachable
  /\ NoCallback
  /\ IdleChunks
  /\ IdlePool
  /\ IdleRate

ServerNext(h) ==
  \/ OutQueueReset(h)
  \/ OutQueueSelect(h)
  \/ OutQueuePush(h)
  \/ GitError(h)

ClientNext(h) ==
  \/ TxReset(h)
  \/ TxAction(h)
  \/ TxPush(h)
  \/ GitError(h)

\* Two servers dequeue from the same shared repository.
Next == \E h \in Servers : ServerNext(h)

Spec == InitQueue /\ [][Next]_vars

\* The client's transaction on from_stt against one server's dequeues.
NextTx == ServerNext("s1") \/ ClientNext("c1")

SpecTx == InitQueue /\ [][NextTx]_vars

\* git_repo_transaction called with or without a success_func.
InitCallback ==
  /\ \E dir \in RaceDirs, arts \in SUBSET Artifacts :
       history = <<[tree |-> MkTree(dir, arts), by |-> "init", msg |-> <<>>,
                    after |-> 0]>>
  /\ \E t \in {"less_than", "better_greater_than"} : limit_type = [h \in Hosts |-> t]
  /\ duration_limit = DurationLimit
  /\ \E b \in BOOLEAN : force = [h \in Hosts |-> b]
  /\ InitHosts
  /\ IdleIn
  /\ NoTest
  /\ NoFix
  /\ NoResults
  /\ NoDistCall
  /\ NoPoolBuilt
  /\ RepoReachable
  /\ success_func \in BOOLEAN /\ on_success = <<>>
  /\ IdleChunks
  /\ IdlePool
  /\ IdleRate

SpecCallback == InitCallback /\ [][NextTx]_vars

\* The queue operations on a queue_dir that may not be a repository.
InitSetup ==
  /\ \E dir \in RaceDirs, arts \in SUBSET Artifacts :
       history = <<[tree |-> MkTree(dir, arts), by |-> "init", msg |-> <<>>,
                    after |-> 0]>>
  /\ \E t \in {"less_than", "better_greater_than"} : limit_type = [h \in Hosts |-> t]
  /\ duration_limit = DurationLimit
  /\ \E b \in BOOLEAN : force = [h \in Hosts |-> b]
  /\ InitHosts
  /\ IdleIn
  /\ NoTest
  /\ NoFix
  /\ NoResults
  /\ NoDistCall
  /\ NoPoolBuilt
  /\ repo_ok \in BOOLEAN /\ attempts = [h \in Hosts |-> 0]
  /\ NoCallback
  /\ IdleChunks
  /\ IdlePool
  /\ IdleRate

NextSetup == NextTx \/ ResetRepoRaises("s1") \/ ResetRepoRaises("c1")

SpecSetup == InitSetup /\ [][NextSetup]_vars

\* One BatchTaskProcessor, its worker threads and its caller.
InitPoolSpec ==
  /\ InitPool
  /\ history = <<[tree |-> MkTree(<<>>, {}), by |-> "init", msg |-> <<>>, after |-> 0]>>
  /\ limit_type = [h \in Hosts |-> "less_than"]
  /\ duration_limit = DurationLimit
  /\ force = [h \in Hosts |-> FALSE]
  /\ InitHosts
  /\ IdleIn
  /\ NoTest
  /\ NoFix
  /\ NoResults
  /\ NoDistCall
  /\ NoPoolBuilt
  /\ RepoReachable
  /\ NoCallback
  /\ IdleChunks
  /\ IdleRate

SpecPool == InitPoolSpec /\ [][NextPool]_vars

\* One server dequeuing from job files of any content: passthrough lines,
\* jobs of every duration, JSON lines without a duration, files without lines.
InitSelect ==
  /\ \E dir \in Dirs(Shapes) :
       history = <<[tree |-> MkTree(dir, {}), by |-> "init", msg |-> <<>>,
                    after |-> 0]>>
  /\ \E t \in {"less_than", "better_greater_than"} : limit_type = [h \in Hosts |-> t]
  /\ duration_limit = DurationLimit
  /\ force = [h \in Hosts |-> FALSE]
  /\ InitHosts
  /\ IdleIn
  /\ NoTest
  /\ NoFix
  /\ NoResults
  /\ NoDistCall
  /\ NoPoolBuilt
  /\ RepoReachable
  /\ NoCallback
  /\ IdleChunks
  /\ IdlePool
  /\ IdleRate

NextSelect == ServerNext("s1")

SpecSelect == InitSelect /\ [][NextSelect]_vars

\* One server dequeuing from a single file of jobs with the durations of the
\* worked examples, under either policy.
ExampleDurations == {10, 30, 50, 2000}
Job(d) == [kind |-> "json", dur |-> d]
ExampleDirs ==
  {[f \in {1} |-> s] : s \in SeqsUpTo({Job(d) : d \in ExampleDurations}, ExampleLen)}

InitExamples ==
  /\ \E dir \in ExampleDirs :
       history = <<[tree |-> MkTree(dir, {}), by |-> "init", msg |-> <<>>,
                    after |-> 0]>>
  /\ \E t \in {"less_than", "better_greater_than"} : limit_type = [h \in Hosts |-> t]
  /\ duration_limit = ExampleLimit
  /\ force = [h \in Hosts |-> FALSE]
  /\ InitHosts
  /\ IdleIn
  /\ NoTest
  /\ NoFix
  /\ NoResults
  /\ NoDistCall
  /\ NoPoolBuilt
  /\ RepoReachable
  /\ NoCallback
  /\ IdleChunks
  /\ IdlePool
  /\ IdleRate

SpecExamples == InitExamples /\ [][NextSelect]_vars

\* The server keeps running, git errors are transient and a publish that is
\* tried again and again is eventually accepted.
FairSelect ==
  /\ SpecSelect
  /\ WF_vars(OutQueueReset("s1")) /\ WF_vars(OutQueueSelect("s1"))
  /\ SF_vars(OutQueuePush("s1"))

\* One server under either policy, on job files of any content or on the
\* worked examples.
InitPolicies == InitSelect \/ InitExamples

SpecPolicies == InitPolicies /\ [][NextSelect]_vars

\* Two servers that may be killed and restarted between the removal of a
\* line from the working copy and the accepted publish.
NextCrash == \E h \in Servers : ServerNext(h) \/ Crash(h)

SpecCrash == InitQueue /\ [][NextCrash]_vars

\* A producer enqueuing job files while one server dequeues.
InitInOut ==
  /\ \E dir \in RaceDirs :
       history = <<[tree |-> MkTree(dir, {}), by |-> "init", msg |-> <<>>,
                    after |-> 0]>>
  /\ limit_type = [h \in Hosts |-> "less_than"]
  /\ duration_limit = DurationLimit
  /\ force = [h \in Hosts |-> FALSE]
  /\ wc = [h \in Hosts |-> Tip.tree]
  /\ head = [h \in Hosts |-> 1]
  /\ pc = [h \in Hosts |-> IF h \in Producers THEN "idle" ELSE "reset"]
  /\ ret = [h \in Hosts |-> "running"]
  /\ bv_list = [h \in Hosts |-> NoLine]
  /\ commit_msg = [h \in Hosts |-> <<>>]
  /\ processed = [h \in Hosts |-> <<>>]
  /\ saved = [h \in Hosts |-> {}]
  /\ synced = [h \in Hosts |-> Tip.tree]
  /\ lostTo = [h \in Hosts |-> 0]
  /\ IdleIn
  /\ NoTest
  /\ NoFix
  /\ NoResults
  /\ NoDistCall
  /\ NoPoolBuilt
  /\ RepoReachable
  /\ NoCallback
  /\ IdleChunks
  /\ IdlePool
  /\ IdleRate

NextInOut == ServerNext("s1") \/ ProducerNext("q1")

SpecInOut == InitInOut /\ [][NextInOut]_vars

\* Threads calling chat_completion through the one module-level RateLimiter.
InitRateSpec ==
  /\ InitRate
  /\ history = <<[tree |-> MkTree(<<>>, {}), by |-> "init", msg |-> <<>>, after |-> 0]>>
  /\ limit_type = [h \in Hosts |-> "less_than"]
  /\ duration_limit = DurationLimit
  /\ force = [h \in Hosts |-> FALSE]
  /\ InitHosts
  /\ IdleIn
  /\ NoTest
  /\ NoFix
  /\ NoResults
  /\ NoDistCall
  /\ NoPoolBuilt
  /\ RepoReachable
  /\ NoCallback
  /\ IdleChunks
  /\ IdlePool

SpecRate == InitRateSpec /\ [][NextRate]_vars

\* One push_changes followed file by file while other hosts synchronize.
InitChunkSpec ==
  /\ InitChunks
  /\ history = <<[tree |-> MkTree(<<>>, {}), by |-> "init", msg |-> <<>>, after |-> 0]>>
  /\ limit_type = [h \in Hosts |-> "less_than"]
  /\ duration_limit = DurationLimit
  /\ force = [h \in Hosts |-> FALSE]
  /\ InitHosts
  /\ IdleIn
  /\ NoTest
  /\ NoFix
  /\ NoResults
  /\ NoDistCall
  /\ NoPoolBuilt
  /\ RepoReachable
  /\ NoCallback
  /\ IdlePool
  /\ IdleRate

SpecChunks == InitChunkSpec /\ [][NextChunks]_vars

\* A pool built from any provider list.
InitConfigSpec ==
  /\ InitConfig
  /\ history = <<[tree |-> MkTree(<<>>, {}), by |-> "init", msg |-> <<>>, after |-> 0]>>
  /\ limit_type = [h \in Hosts |-> "less_than"]
  /\ duration_limit = DurationLimit
  /\ force = [h \in Hosts |-> FALSE]
  /\ InitHosts
  /\ IdleIn
  /\ NoTest
  /\ NoFix
  /\ NoResults
  /\ NoDistCall
  /\ RepoReachable
  /\ NoCallback
  /\ IdleChunks
  /\ IdlePool
  /\ IdleRate

SpecConfig == InitConfigSpec /\ [][NextConfig]_vars

\* One call of process_tasks_distributed.
InitDistSpec ==
  /\ InitDist
  /\ history = <<[tree |-> MkTree(<<>>, {}), by |-> "init", msg |-> <<>>, after |-> 0]>>
  /\ limit_type = [h \in Hosts |-> "less_than"]
  /\ duration_limit = DurationLimit
  /\ force = [h \in Hosts |-> FALSE]
  /\ InitHosts
  /\ IdleIn
  /\ NoTest
  /\ NoFix
  /\ NoResults
  /\ NoPoolBuilt
  /\ RepoReachable
  /\ NoCallback
  /\ IdleChunks
  /\ IdlePool
  /\ IdleRate

SpecDist == InitDistSpec /\ [][NextDist]_vars

\* every started thread keeps running
FairDist ==
  /\ SpecDist
  /\ WF_vars(DistReturn) /\ WF_vars(DistDefault)
  /\ \A w \in Providers : WF_vars(DistWorker(w))

\* push_changes against the pushes of other hosts.
NextPublish == NextChunks \/ RivalPush

SpecPublish == InitChunkSpec /\ [][NextPublish]_vars

\* git errors are transient: a host that keeps stepping gets every reset and
\* every push through to the remote sooner or later.
FairTx ==
  /\ SpecTx
  /\ \A h \in {"s1", "c1"} :
       /\ WF_vars(OutQueueReset(h)) /\ WF_vars(OutQueueSelect(h))
       /\ SF_vars(OutQueuePush(h))
       /\ WF_vars(TxReset(h)) /\ WF_vars(TxAction(h))
       /\ SF_vars(TxPush(h))

\* ------------------------------------------------------------------ claims
\* The steps of a client inside git_repo_transaction.
C1_Step ==
  \A h \in Clients :
    /\ ret'[h] \in {"running", "True"}
    /\ (pc[h] # "done" /\ pc'[h] = "done") =>
         /\ ret'[h] = "True"
         /\ \/ pc[h] = "action" /\ Movable(h) = {} /\ history' = history
            \/ /\ pc[h] = "push"
               /\ history' = Append(history, [tree |-> wc[h], by |-> h,
                                              msg |-> commit_msg[h],
                                              after |-> lostTo[h]])
    /\ (pc[h] = "push" /\ history' = history /\ pc'[h] # "push") =>
         pc'[h] = "reset" /\ ret'[h] = "running"
    /\ (pc[h] = "reset" /\ pc'[h] # "reset") =>
         pc'[h] = "action" /\ wc'[h] = Tip.tree /\ head'[h] = Len(history)
    /\ (pc[h] # "push" /\ pc'[h] = "push") => pc[h] = "action"

\* C1: git_repo_transaction returns only when the action had nothing to do or
\* when a publish was accepted; a rejected publish is not reported to the
\* caller: the loop goes back to reset_repo, and the action runs again on
\* the freshly synchronized tree before the next publish.
C1_TransactionReturns == [][C1_Step]_vars

\* C1 witness: the transaction returned True with a publish accepted on a
\* retry, after an earlier publish of it had been rejected.
C1_Witness ==
  /\ pc["c1"] = "done" /\ ret["c1"] = "True"
  /\ \E k \in 2..Len(history) : history[k].by = "c1" /\ history[k].after > 0

\* Every accepted commit is its author's change applied to the commit before it.
C2_BuiltOnTop ==
  \A k \in 2..Len(history) :
    LET c == history[k]
        p == history[k - 1].tree
    IN /\ c.after < k
       /\ IF c.by \in Servers
          THEN /\ c.tree.from_stt = p.from_stt
               /\ \E f \in DOMAIN p.to_stt : \E i \in DOMAIN p.to_stt[f] :
                    c.tree.to_stt = RemoveLine(p.to_stt, f, i)
          ELSE /\ c.tree.to_stt = p.to_stt
               /\ c.tree.from_stt \subseteq p.from_stt
               /\ c.tree.from_stt # p.from_stt

C2_SyncSeesWinner ==
  \A h \in Hosts :
    (pc[h] \in {"scan", "action", "push"} /\ lostTo[h] > 0) =>
      /\ head[h] >= lostTo[h]
      /\ synced[h] = history[head[h]].tree

C2_BothReturned == pc["s1"] = "exit" /\ pc["c1"] = "done" /\ ret["c1"] = "True"

\* C2: two transactions racing on the shared repository both return; the
\* loser's next reset_repo produces a tree that holds the winner's commit,
\* and every accepted commit is its author's change applied to the commit
\* before it, so that no accepted change is undone.
C2_PublishRace ==
  /\ [](C2_BuiltOnTop /\ C2_SyncSeesWinner)
  /\ <>[]C2_BothReturned

\* C2 witness: both hosts returned, and a commit of the loser sits right on
\* top of the commit of the other host that had made its publish fail.
C2_Witness ==
  /\ C2_BothReturned
  /\ \E k \in 3..Len(history) :
       history[k].after = k - 1 /\ history[k].by # history[k - 1].by

\* C3: a line of to_stt is handed to at most one server: no line is processed
\* twice, by two servers or by one, and the shared history holds at most one
\* accepted removal of it.
C3_DequeuedOnce ==
  /\ \A h1, h2 \in Servers :
       \A i \in DOMAIN processed[h1], j \in DOMAIN processed[h2] :
         (h1 # h2 \/ i # j) => processed[h1][i].id # processed[h2][j].id
  /\ \A k1, k2 \in 2..Len(history) :
       k1 # k2 => history[k1].msg # history[k2].msg

\* C3 witness: s2 lost the race for a line to s1, synchronized again and came
\* back with another line.
C3_Witness ==
  /\ Len(processed["s1"]) > 0 /\ Len(processed["s2"]) > 0
  /\ \E k \in 3..Len(history) :
       /\ history[k].by = "s2" /\ history[k].after = k - 1
       /\ history[k - 1].by = "s1"
       /\ history[k].msg # history[k - 1].msg

\* Every thread that can step does; the provider calls and the callback
\* are nondeterministic, so nothing more is assumed of them.
FairPool ==
  /\ SpecPool
  /\ \A w \in Providers : WF_vars(WorkerNext(w))
  /\ WF_vars(AddTask \/ WaitAndStop \/ QueueJoin \/ JoinThreads)

AllExited == \A w \in Providers : wpc[w] = "exited"

\* C4: wait_and_stop returns even when every worker has retired with tasks
\* left: a caller inside task_queue.join() is not left waiting on tasks that
\* no worker remains to finish.
C4_DrainReturns == (mpc = "join" /\ AllExited) => unfinished = 0

\* A provider with a failed call is in its except clause or out of its loop.
C5_Retired ==
  \A w \in Providers :
    (\E i \in Tasks : <<i, w>> \in failures) => wpc[w] \in {"requeue", "retire", "exited"}

C5_Step ==
  \A w \in Providers :
    /\ (wpc[w] = "requeue" /\ wpc'[w] # "requeue") =>
         /\ wpc'[w] = "retire"
         /\ task_queue' = Append(task_queue, MkTask(task[w].id))
    /\ (wpc[w] \in {"retire", "exited"}) =>
         /\ wpc'[w] \in {"retire", "exited"}
         /\ task'[w] = task[w]

\* C5: a provider whose call failed is on its way out of _worker_loop for
\* the rest of the run and takes no further task, and the task it held goes
\* back to the end of the queue as the tuple that was submitted.
C5_FailedProviderRetires == []C5_Retired /\ [][C5_Step]_vars

\* C5 witness: p1 failed on a task and has left its loop; p2 now holds that task.
C5_Witness ==
  /\ wpc["p1"] = "exited" /\ wpc["p2"] = "call"
  /\ <<task["p2"].id, "p1">> \in failures
  /\ task["p2"] = MkTask(task["p2"].id)

\* C6: with a provider that never fails, every task added before
\* wait_and_stop gets its callback, from a provider that has not failed and
\* not from the provider that failed the task.
C6_AllDelivered ==
  /\ (reliable # {} /\ mpc # "add" /\ AllExited) =>
       \A i \in 1..submitted : results[i] # <<>>
  /\ \A w \in Providers :
       wpc[w] \in {"callback", "task_done"} => \A i \in Tasks : <<i, w>> \notin failures
  /\ \A i \in Tasks : \A k \in DOMAIN results[i] : <<i, results[i][k]>> \notin failures

\* With a callback that never raises and a provider that never fails, every
\* added task is delivered once the caller waits.
DeliveredIfCallbackReturns ==
  (~cb_raises /\ reliable # {}) =>
    \A i \in Tasks : [](submitted >= i /\ mpc # "add" => <>(results[i] # <<>>))

\* C7: the callback is invoked at most once per task, and never for a
\* provider whose call on that task failed.
C7_OneResultPerTask ==
  \A i \in Tasks :
    /\ Len(results[i]) <= 1
    /\ \A k \in DOMAIN results[i] : <<i, results[i][k]>> \notin failures

\* The task a worker holds between its get and its task_done or put.
InFlight(w) ==
  IF wpc[w] \in {"call", "callback", "task_done", "requeue"} THEN task[w].id ELSE 0

\* C8: a task taken from the queue is held by one worker only, and is not on
\* the queue while it is held.
C8_SingleOwner ==
  \A w \in Providers :
    InFlight(w) # 0 =>
      /\ \A v \in Providers \ {w} : InFlight(v) # InFlight(w)
      /\ \A k \in DOMAIN task_queue : task_queue[k].id # InFlight(w)

\* C8 witness: p1 has put its failed task back and not yet left its except
\* clause while p2 is already processing that task.
C8_Witness ==
  /\ wpc["p1"] = "retire" /\ wpc["p2"] = "call"
  /\ task["p1"] = task["p2"] /\ task["p1"] # NoTask

Positions(dir) == UNION {{<<f, i>> : i \in 1..Len(dir[f])} : f \in DOMAIN dir}
Before(p, q) == p[1] < q[1] \/ (p[1] = q[1] /\ p[2] < q[2])
LineAt(dir, p) == dir[p[1]][p[2]]
Eligible(l) == l.kind = "raw" \/ (l.kind = "json" /\ l.dur < DurationLimit)
EligibleAt(dir) == {p \in Positions(dir) : Eligible(LineAt(dir, p))}
CommitsBy(h) == Cardinality({i \in 1..Len(history) : history[i].by = h})

C10_Selected ==
  \A h \in Servers : limit_type[h] = "less_than" =>
    LET dir == synced[h].to_stt IN
    /\ pc[h] = "push" =>
         /\ EligibleAt(dir) # {}
         /\ \E p \in EligibleAt(dir) :
              /\ \A q \in EligibleAt(dir) : q = p \/ Before(p, q)
              /\ bv_list[h] = LineAt(dir, p)
              /\ wc[h].to_stt = RemoveLine(dir, p[1], p[2])
    /\ \A i \in 1..Len(processed[h]) :
         /\ Eligible(processed[h][i])
         /\ ~(processed[h][i].kind = "json" /\ processed[h][i].dur >= DurationLimit)
    /\ ret[h] = "None" =>
         /\ EligibleAt(dir) = {}
         /\ wc[h] = synced[h]
         /\ Tip.tree = synced[h]
    /\ CommitsBy(h) = Len(processed[h])

C10_Step ==
  \A h \in Servers : (limit_type[h] = "less_than" /\ processed'[h] # processed[h]) =>
    /\ pc[h] = "push" /\ ret'[h] = "True"
    /\ processed'[h] = Append(processed[h], bv_list[h])
    /\ Tip'.tree = wc[h] /\ Tip'.by = h

\* C10: under less_than the line out_queue selects, publishes and returns is
\* the first line in scan order that is not valid JSON or has a duration
\* strictly below the limit, never a job with duration >= limit; when it
\* returns none no line is eligible, no job file was changed and nothing
\* was published.
C10_LessThanFirstEligible == []C10_Selected /\ [][C10_Step]_vars

\* C10 witness: out_queue returned a short job that stood behind a job of
\* exactly the limit, then returned none with that job still queued.
C10_Witness ==
  /\ limit_type["s1"] = "less_than" /\ ret["s1"] = "None"
  /\ Len(processed["s1"]) = 1
  /\ processed["s1"][1].kind = "json" /\ processed["s1"][1].id = 2
  /\ \E p \in Positions(Tip.tree.to_stt) :
       /\ LineAt(Tip.tree.to_stt, p).dur = DurationLimit
       /\ LineAt(Tip.tree.to_stt, p).id = 1

\* The durations of the lines a server handed to process_input, in order.
Durations(h) == [i \in 1..Len(processed[h]) |-> processed[h][i].dur]
StartedWith(durs) ==
  history[1].tree.to_stt = [f \in {1} |-> Stamp(1, [i \in 1..Len(durs) |-> Job(durs[i])])]
IsPrefix(a, b) == Len(a) <= Len(b) /\ \A i \in 1..Len(a) : a[i] = b[i]

\* C11: from a job file with durations [50, 2000, 10] and limit 100,
\* successive less_than selections return the job of 10, then the job of 50,
\* then none with only the job of 2000 left.
C11_TenFirst ==
  (StartedWith(<<50, 2000, 10>>) /\ limit_type["s1"] = "less_than") =>
    /\ IsPrefix(Durations("s1"), <<10, 50>>)
    /\ ret["s1"] = "None" => Durations("s1") = <<10, 50>>

\* C11 as amended: the selections return the job of 50 first, the job of 10
\* second, and then none with only the job of 2000 left.
C11_FiftyFirst ==
  (StartedWith(<<50, 2000, 10>>) /\ limit_type["s1"] = "less_than") =>
    /\ IsPrefix(Durations("s1"), <<50, 10>>)
    /\ ret["s1"] = "None" =>
         /\ Durations("s1") = <<50, 10>>
         /\ Tip.tree.to_stt = [f \in {1} |-> <<[id |-> 2, kind |-> "json", dur |-> 2000]>>]

\* C11 witness: both short jobs were returned and the third call returned none.
C11_Witness ==
  /\ StartedWith(<<50, 2000, 10>>) /\ limit_type["s1"] = "less_than"
  /\ ret["s1"] = "None" /\ Len(processed["s1"]) = 2

Preferred(l) == l.kind = "raw" \/ (l.kind = "json" /\ l.dur > duration_limit)
PreferredAt(dir) == {p \in Positions(dir) : Preferred(LineAt(dir, p))}
StructuredAt(dir) == {p \in Positions(dir) : LineAt(dir, p).kind = "json"}
First(P) == CHOOSE p \in P : \A q \in P : q = p \/ Before(p, q)

C12_Selected ==
  \A h \in Servers : (limit_type[h] = "better_greater_than" /\ pc[h] = "push") =>
    LET dir == synced[h].to_stt
        p == IF PreferredAt(dir) # {} THEN First(PreferredAt(dir))
             ELSE First(StructuredAt(dir))
    IN /\ PreferredAt(dir) # {} \/ StructuredAt(dir) # {}
       /\ bv_list[h] = LineAt(dir, p)
       /\ wc[h].to_stt = RemoveLine(dir, p[1], p[2])

C12_Step ==
  \A h \in Servers :
    (limit_type[h] = "better_greater_than" /\ processed'[h] # processed[h]) =>
      /\ pc[h] = "push" /\ ret'[h] = "True"
      /\ processed'[h] = Append(processed[h], bv_list[h])

C12_Example ==
  (StartedWith(<<50, 30>>) /\ limit_type["s1"] = "better_greater_than") =>
    IsPrefix(Durations("s1"), <<50, 30>>)

\* C12: under better_greater_than the line out_queue selects and returns is
\* the first line in scan order that is not JSON or is a job longer than the
\* limit; when the scan finds none, it is the first job of the scan whatever
\* its duration: of durations [50, 30] with limit 100 the job of 50.
C12_GreaterThanWithFallback == [](C12_Selected /\ C12_Example) /\ [][C12_Step]_vars

\* C12 witness: of the jobs [50, 30] the fallback returned the job of 50.
C12_Witness ==
  /\ StartedWith(<<50, 30>>) /\ limit_type["s1"] = "better_greater_than"
  /\ Durations("s1") = <<50>> /\ ret["s1"] = "True"

RawAt(dir) == {p \in Positions(dir) : LineAt(dir, p).kind = "raw"}
\* The jobs the policy of host h looks for.
QualifyingAt(h, dir) ==
  {p \in Positions(dir) :
     /\ LineAt(dir, p).kind = "json"
     /\ IF limit_type[h] = "less_than" THEN LineAt(dir, p).dur < duration_limit
        ELSE LineAt(dir, p).dur > duration_limit}

\* C13: whenever the job files hold a line that is not JSON, the next
\* selection is such a line, under either policy and wherever the jobs stand.
C13_RawAlwaysNext ==
  \A h \in Servers :
    (pc[h] = "push" /\ RawAt(synced[h].to_stt) # {}) => bv_list[h].kind = "raw"

C13_Selected ==
  \A h \in Servers : (pc[h] = "push" /\ RawAt(synced[h].to_stt) # {}) =>
    LET dir == synced[h].to_stt
        r == First(RawAt(dir))
        Q == QualifyingAt(h, dir)
        p == IF \A q \in Q : Before(r, q) THEN r ELSE First(Q)
    IN /\ bv_list[h] = LineAt(dir, p)
       /\ wc[h].to_stt = RemoveLine(dir, p[1], p[2])

C13_Step ==
  \A h \in Servers : processed'[h] # processed[h] =>
    /\ pc[h] = "push" /\ ret'[h] = "True"
    /\ processed'[h] = Append(processed[h], bv_list[h])

\* C13 as amended: a line that is not JSON is selected when the scan reaches
\* it, under either policy: it is the next selection unless a job that the
\* policy looks for (shorter than the limit under less_than, longer under
\* better_greater_than) stands before it in the scan, in which case the first
\* such job is; under better_greater_than it goes before every fallback job.
C13_RawWhenReached == []C13_Selected /\ [][C13_Step]_vars

\* C13 witness: under better_greater_than the line that is not JSON is taken
\* although a job no longer than the limit stands before it.
C13_Witness ==
  /\ limit_type["s1"] = "better_greater_than" /\ pc["s1"] = "push"
  /\ bv_list["s1"].kind = "raw" /\ bv_list["s1"].id = 2
  /\ LineAt(synced["s1"].to_stt, <<1, 1>>).kind = "json"

\* C14: whatever the job files hold (lines that are not JSON, JSON values
\* without a duration, files without lines), a call of out_queue ends by
\* returning a line or none.
C14_SelectionEnds == <>(ret["s1"] # "running")

\* The working copy differs from the synchronized tree by line i of file f only.
OnlyLineRemoved(new, old, f, i) ==
  /\ \A g \in DOMAIN old \ {f} : g \in DOMAIN new /\ new[g] = old[g]
  /\ DOMAIN new \subseteq DOMAIN old
  /\ IF Len(old[f]) = 1 THEN f \notin DOMAIN new
     ELSE /\ f \in DOMAIN new
          /\ Len(new[f]) = Len(old[f]) - 1
          /\ \A j \in 1..Len(new[f]) :
               new[f][j] = IF j < i THEN old[f][j] ELSE old[f][j + 1]

C15_Removed ==
  \A h \in Servers : pc[h] = "push" =>
    \E p \in Positions(synced[h].to_stt) :
      /\ bv_list[h] = LineAt(synced[h].to_stt, p)
      /\ OnlyLineRemoved(wc[h].to_stt, synced[h].to_stt, p[1], p[2])
      /\ wc[h].from_stt = synced[h].from_stt

C15_Step ==
  \A h \in Servers : (pc[h] = "push" /\ history' # history) =>
    history' = Append(history, [tree |-> wc[h], by |-> h, msg |-> commit_msg[h],
                                after |-> lostTo[h]])

C16_NoEmptyJobFile ==
  \A k \in 1..Len(history) :
    \A f \in DOMAIN history[k].tree.to_stt : Len(history[k].tree.to_stt[f]) > 0

LineIds(dir) == {LineAt(dir, p).id : p \in Positions(dir)}
ProcessedIds(h) == {processed[h][i].id : i \in 1..Len(processed[h])}

\* Every line queued at the start is still in the shared to_stt or was
\* handed to exactly one server.
C17_NoItemLost ==
  /\ LineIds(history[1].tree.to_stt) =
       LineIds(Tip.tree.to_stt) \cup UNION {ProcessedIds(h) : h \in Servers}
  /\ \A h \in Servers : LineIds(Tip.tree.to_stt) \cap ProcessedIds(h) = {}

C17_Step ==
  \A h \in Servers :
    /\ (pc[h] = "push" /\ pc'[h] = "reset" /\ ret'[h] = "crashed") =>
         /\ history' = history
         /\ bv_list[h].id \in LineIds(history[head[h]].tree.to_stt)
         /\ bv_list[h].id \notin LineIds(wc[h].to_stt)
    /\ (ret[h] = "crashed" /\ pc[h] = "reset" /\ pc'[h] = "scan") =>
         /\ wc'[h] = Tip.tree
         /\ bv_list[h].id \in LineIds(Tip.tree.to_stt) \cup
                              UNION {ProcessedIds(g) : g \in Servers \ {h}}

\* C17: a server killed after out_queue removed a line from its working
\* copy and before its publish was accepted loses nothing: the line is
\* still in the shared to_stt, the next reset_repo puts it back into the
\* working copy (unless another server has dequeued it meanwhile), and every
\* queued line stays either queued or handed to one server.
C17_CrashLosesNothing == []C17_NoItemLost /\ [][C17_Step]_vars

\* C17 witness: s1 was killed with a line removed locally, came back,
\* synchronized, and has the line in its working copy again.
C17_Witness ==
  /\ ret["s1"] = "crashed" /\ pc["s1"] = "scan"
  /\ bv_list["s1"] # NoLine
  /\ bv_list["s1"].id \in LineIds(wc["s1"].to_stt)
  /\ bv_list["s1"].id \notin ProcessedIds("s1")

\* host h has synchronized and nobody has published since
Synchronized(h) == head[h] = Len(history) /\ synced[h] = Tip.tree

\* C18: a reset_repo called again when no host has published since the
\* caller's last reset_repo leaves the job files as that last call left
\* them, whatever was done to the working copy in between: no line is lost
\* and none is duplicated; the call itself publishes nothing.
C18_SynchronizeIdempotent ==
  [][\A h \in Hosts :
       (pc[h] = "reset" /\ pc'[h] # "reset" /\ Synchronized(h)) =>
         /\ wc'[h] = synced[h]
         /\ synced'[h] = synced[h]
         /\ head'[h] = head[h]
         /\ history' = history]_vars

\* C18 witness: s1 synchronized, removed a line from its working copy,
\* published nothing (a git error or a kill), and synchronized again while
\* the shared history was the initial one: the line is back.
C18_Witness ==
  /\ pc["s1"] = "scan" /\ Len(history) = 1
  /\ bv_list["s1"] # NoLine
  /\ bv_list["s1"].id \in LineIds(wc["s1"].to_stt)
  /\ wc["s1"] = synced["s1"]

\* While the action runs or is about to, the commit the working copy was
\* reset to is one of the shared history.
C19_AtSharedCommit ==
  \A h \in Clients : pc[h] = "action" =>
    /\ head[h] \in 1..Len(history)
    /\ wc[h] = history[head[h]].tree
    /\ ~HasChanges(h)

\* The reset_repo that precedes the action checks out the shared tip.
C19_Step ==
  \A h \in Clients : (pc[h] = "reset" /\ pc'[h] = "action") =>
    /\ history' = history
    /\ head'[h] = Len(history)
    /\ wc'[h] = Tip.tree

\* C19: when the action of a git_repo_transaction starts, the working copy
\* is the tree of the shared tip that reset_repo has just fetched: files
\* moved or removed locally, and the local commit a rejected push left
\* behind, are gone.
C19_ActionStartsAtTip == []C19_AtSharedCommit /\ [][C19_Step]_vars

\* C19 witness: the client's push was rejected after it had moved files
\* out of from_stt; it has synchronized again and its action is about to
\* start on the tree of the shared tip.
C19_Witness ==
  /\ pc["c1"] = "action" /\ lostTo["c1"] # 0
  /\ saved["c1"] # {}
  /\ wc["c1"] = Tip.tree /\ Len(history) > 1

\* success_func is called after an accepted publish only, and with the
\* message of that commit.
C20_CallbackAfterPublish ==
  \A i \in 1..Len(on_success) :
    \E k \in 2..Len(history) :
      history[k].by \in Clients /\ history[k].msg = on_success[i]

C20_Step ==
  \A h \in Clients :
    (pc[h] = "action" /\ pc'[h] # "action" /\ Movable(h) = {}) =>
      /\ pc'[h] = "done" /\ ret'[h] = "True"
      /\ history' = history /\ head' = head
      /\ on_success' = on_success

\* C20: when action_func returns None, git_repo_transaction returns True
\* at once: push_changes is not called, success_func is not called, and
\* the shared history stays as it is.
C20_NothingToDoReturns == []C20_CallbackAfterPublish /\ [][C20_Step]_vars

\* C20 witness: a transaction that was given a success_func has returned
\* True on a from_stt with nothing to move; the client has published
\* nothing and the callback was never called.
C20_Witness ==
  /\ success_func /\ pc["c1"] = "done" /\ ret["c1"] = "True"
  /\ commit_msg["c1"] = <<>>
  /\ on_success = <<>>
  /\ \A k \in 1..Len(history) : history[k].by # "c1"

\* A transaction that was given a success_func called it as often as it
\* got a commit accepted, at most once, and not before it returned.
C21_OncePerPublish ==
  \A h \in Clients :
    /\ CommitsBy(h) <= 1
    /\ success_func => Len(on_success) = CommitsBy(h)
    /\ ~success_func => on_success = <<>>
    /\ CommitsBy(h) = 1 => pc[h] = "done" /\ ret[h] = "True"

C21_Step ==
  \A h \in Clients :
    /\ (pc[h] = "push" /\ pc'[h] # "done") => on_success' = on_success
    /\ (pc[h] = "push" /\ pc'[h] = "done" /\ success_func) =>
         /\ history' = Append(history, [tree |-> wc[h], by |-> h,
                                        msg |-> commit_msg[h], after |-> lostTo[h]])
         /\ on_success' = Append(on_success, commit_msg[h])
         /\ commit_msg[h] = <<Cardinality(synced[h].from_stt \ wc[h].from_stt)>>
    /\ pc[h] # "push" => on_success' = on_success

ChangedPaths == {p \in Paths : work_tree[p] # origin[1][p]}

\* C22: however many chunks the staging took, the shared history gets the
\* change set as one commit holding every added, edited and deleted file:
\* every tree of the shared branch, and every tree another host ever
\* synchronized to, is the tree before the publish or the whole working tree.
C22_OneCommitForAllChunks ==
  /\ Len(origin) <= 2
  /\ \A k \in 1..Len(origin) : origin[k] \in {origin[1], work_tree}
  /\ observed \subseteq {origin[1], work_tree}
  /\ Len(origin) = 2 => origin[2] = work_tree /\ todo = <<>>

\* C22 witness: a change set larger than a chunk, holding an added, an
\* edited and a deleted file, was staged in several chunks and published;
\* other hosts synchronized before and after.
C22_Witness ==
  /\ ppc = "done" /\ Len(origin) = 2 /\ staged > 1
  /\ Cardinality(ChangedPaths) > ChunkSize
  /\ \E p, q, r \in Paths :
       /\ origin[1][p] = 0 /\ origin[2][p] = 2
       /\ origin[1][q] = 1 /\ origin[2][q] = 2
       /\ origin[1][r] = 1 /\ origin[2][r] = 0
  /\ observed = {origin[1], origin[2]}

\* C23: push_changes returns False when another host's commit reached the
\* shared branch after this host's last reset_repo, and then the shared
\* branch is left as it was; it returns True when its commit, holding the
\* whole working tree, became the shared tip, or when there was nothing to
\* commit, and then it added no commit.
C23_PublishResult ==
  [][/\ (ppc = "push" /\ ppc' = "failed") => Len(origin) > 1 /\ origin' = origin
     /\ (ppc = "push" /\ ppc' \notin {"push", "failed"} /\ Len(origin) > 1) =>
          ppc' = "raised" /\ origin' = origin
     /\ (ppc = "push" /\ ppc' = "done") =>
          Len(origin) = 1 /\ origin' = Append(origin, work_tree)
     /\ (ppc = "diff" /\ ppc' = "done") =>
          work_tree = origin[1] /\ origin' = origin
     /\ (ppc = "diff" /\ ppc' = "stage") => work_tree # origin[1]]_vars

\* C23 witness: the host staged and committed its changes, another host
\* had pushed meanwhile, and push_changes returned False; the shared tip is
\* the other host's commit.
C23_Witness ==
  /\ ppc = "failed" /\ staged > 0
  /\ local_commit = work_tree
  /\ Len(origin) = 2 /\ origin[2] # local_commit

\* C24: a host whose reset_repo could not open the repository has stopped:
\* it is not back at the start of its retry loop, and it has not called
\* reset_repo a second time.
C24_SetupFailureIsFatal ==
  \A h \in {"s1", "c1"} :
    (~repo_ok /\ attempts[h] > 0) => pc[h] # "reset" /\ attempts[h] = 1

\* C25: the shared queue of a BatchTaskProcessor never holds more tasks
\* than there are providers: add_task waits while the queue is full.
C25_QueueBounded == Len(task_queue) <= Cardinality(Providers)

\* C26: when every worker has exited with tasks still on the queue, the
\* caller's wait_and_stop comes back to it (with the tasks left over to
\* report): the caller is not left inside it for ever.
C26_LeftoverReported == (AllExited /\ task_queue # <<>>) ~> (mpc = "done")

\* no worker holds a task it took and has not finished with
NoneInFlight == \A w \in Providers : wpc[w] \in {"loop", "get", "exited"}

\* Once stop_event is set the queue has drained for good, and once
\* wait_and_stop has returned every submitted task has been through the
\* callback and every worker thread has exited.
C27_Drained ==
  /\ stop_event =>
       /\ task_queue = <<>> /\ unfinished = 0 /\ NoneInFlight
       /\ \A i \in 1..submitted : results[i] # <<>>
  /\ mpc = "done" => stop_event /\ AllExited

\* C27: wait_and_stop returns only with the queue empty, no task in
\* flight, every submitted task delivered to the callback and every worker
\* exited, and stop_event is set only when the queue has drained.
C27_ReturnsWhenDrained ==
  []C27_Drained /\ [][stop_event' # stop_event =>
                        /\ stop_event' /\ mpc = "join"
                        /\ task_queue = <<>> /\ unfinished = 0 /\ NoneInFlight]_vars

\* C27 witness: wait_and_stop has returned after a run in which a worker
\* retired on a failed call and the other worker delivered every task.
C27_Witness ==
  /\ mpc = "done" /\ submitted = NumTasks
  /\ failures # {}
  /\ \A i \in Tasks : results[i] # <<>>

\* C28: while a thread sleeps out the interval of its provider inside
\* wait_if_needed, no thread bound to another provider is held up at the
\* limiter's lock.
C28_OtherProvidersPass ==
  \A t, u \in Threads :
    (lock = t /\ tpc[t] = "sleep" /\ now < wake[t] /\ api_name[u] # api_name[t]) =>
      tpc[u] # "lock"

\* the names in a sequence
Range(seq) == {seq[i] : i \in 1..Len(seq)}

\* a provider with the failed flag has no worker and was handed no task
FailedLeftOut ==
  \A p \in Range(open_ai_list) : is_failed[p] =>
    /\ p \notin Range(threads)
    /\ \A e \in handed : e[2] # p
    /\ p \in Range(GetAll(TRUE))

\* the started workers are the non-failed providers, one each
WorkerPerProvider ==
  cpc \in {"running", "done"} =>
    /\ Len(threads) = Len(GetAll(FALSE))
    /\ Range(threads) = Range(GetAll(FALSE))

\* C29: a provider flagged failed when the pool is built gets no worker
\* and no task of that pool, and stays listed by get_all(include_failed=True);
\* the pool runs one worker per non-failed provider.
C29_FailedExcluded == FailedLeftOut /\ WorkerPerProvider

\* C30: a pool built when get_all() is empty stops at construction: no
\* worker is started and no task is handed to anyone.
C30_NoProviderIsFatal ==
  GetAll(FALSE) = <<>> => threads = <<>> /\ handed = {} /\ cpc \in {"new", "failed"}

\* No index is taken twice; a stored tuple is the answer to the content of
\* its index; the returned list has a tuple at every index, each index was
\* taken by one worker, and the queue is empty.
C31_OnePerTask ==
  /\ \A i \in Tasks :
       /\ dist_taken[i] <= 1
       /\ dist_results[i] # None => dist_results[i].content = MkTask(i).content
  /\ dist_main = "returned" =>
       /\ dist_queue = <<>>
       /\ \A i \in Tasks :
            /\ dist_results[i] # None
            /\ dist_configs # {} => dist_taken[i] = 1

\* A worker that stored a result, of whatever kind, at the index it held
\* goes back to the queue; it leaves only on an empty queue.
C31_Step ==
  \A w \in Providers :
    /\ (dist_pc[w] = "call" /\ dist_pc'[w] # "call") =>
         /\ dist_pc'[w] = "task_done"
         /\ dist_results'[dist_task[w].id] # None
         /\ \A i \in Tasks \ {dist_task[w].id} : dist_results'[i] = dist_results[i]
    /\ (dist_pc[w] = "task_done" /\ dist_pc'[w] # "task_done") => dist_pc'[w] = "get"
    /\ (dist_pc[w] # "exited" /\ dist_pc'[w] = "exited") =>
         dist_pc[w] = "get" /\ dist_queue = <<>>

\* C31: process_tasks_distributed returns one tuple per task, at the task's
\* index, for any set of workers and any interleaving; every task is taken
\* by one worker; a failed call is stored as the task's result and the
\* worker goes on; the call returns once the queue is empty.
C31_DistributedResults ==
  []C31_OnePerTask /\ [][C31_Step]_vars /\ <>(dist_main = "returned")

\* C31 witness: two workers shared the tasks, one call failed with an
\* exception, one gave an error answer and one a summary, and the list was
\* returned.
C31_Witness ==
  /\ dist_main = "returned" /\ dist_configs = Providers
  /\ \E i, j, k \in Tasks :
       /\ i < j
       /\ dist_results[i].kind = "raised"
       /\ dist_results[j].name # dist_results[k].name
       /\ dist_results[j].kind = "summary" /\ dist_results[k].kind = "error text"

\* C32: when the client's out_queue has returned, every artifact its last
\* reset_repo found in from_stt is in the save directory and is gone from
\* from_stt in the commit the client has as origin/<branch>: its own
\* accepted one.
C32_AllMovedAndPublished ==
  \A h \in Clients : pc[h] = "done" =>
    \A a \in synced[h].from_stt :
      a \in saved[h] /\ a \notin history[head[h]].tree.from_stt

\* C33: a commit published by an enqueue holds every line that was pending in
\* the commit it was made on: enqueueing only adds lines to to_stt.
C33_EnqueueKeepsPending ==
  \A k \in 2..Len(history) :
    history[k].by \in Producers =>
      LineIds(history[k - 1].tree.to_stt) \subseteq LineIds(history[k].tree.to_stt)

\* the lines of the input files whose enqueue was accepted
EnqueuedIds ==
  UNION {{history[k].tree.to_stt[history[k].msg[1]][i].id :
            i \in 1..Len(history[k].tree.to_stt[history[k].msg[1]])} :
         k \in {j \in 2..Len(history) : history[j].by \in Producers}}

\* C34: the shared to_stt holds exactly the lines queued at the start and the
\* lines of the accepted enqueues, minus the lines of the accepted dequeues,
\* each of them once.
C34_QueueIsEnqueuedMinusDequeued ==
  /\ LineIds(Tip.tree.to_stt) =
       (LineIds(history[1].tree.to_stt) \cup EnqueuedIds)
         \ UNION {ProcessedIds(h) : h \in Servers}
  /\ Cardinality(Positions(Tip.tree.to_stt)) = Cardinality(LineIds(Tip.tree.to_stt))

\* ------------------------------------------------- server/server_in_queue.py
Results == 1..MaxResults

ServerInReset(h) ==
  /\ UNCHANGED notup /\ UNCHANGED upvars
  /\ h \in Servers /\ pc[h] = "in_reset"
  /\ repo_ok
  /\ ResetRepo(h)
  /\ pc' = [pc EXCEPT ![h] = "in_glob"]
  /\ UNCHANGED <<history, ret, bv_list, commit_msg, processed, saved,
                 limit_type, duration_limit, force, lostTo>>

\* The glob of SRC_DIR; files: each is copied into from_stt (created or
\* replaced); none: break.
ServerInCopy(h) ==
  /\ UNCHANGED notup
  /\ h \in Servers /\ pc[h] = "in_glob"
  /\ in_input_files' = [in_input_files EXCEPT ![h] = server_text[h]]
  /\ server_text' = server_text
  /\ IF server_text[h] # {}
     THEN /\ wc' = [wc EXCEPT ![h].from_stt = @ \cup server_text[h]]
          /\ commit_msg' = [commit_msg EXCEPT ![h] = <<Cardinality(server_text[h])>>]
          /\ pc' = [pc EXCEPT ![h] = "in_push"]
          /\ ret' = ret
     ELSE /\ pc' = [pc EXCEPT ![h] = "in_done"]
          /\ ret' = [ret EXCEPT ![h] = "None"]
          /\ UNCHANGED <<wc, commit_msg>>
  /\ UNCHANGED <<history, head, bv_list, processed, saved, limit_type,
                 duration_limit, force, synced, lostTo>>

\* push_changes; False: sleep(10), continue.
ServerInPush(h) ==
  /\ UNCHANGED notup /\ UNCHANGED upvars
  /\ h \in Servers /\ pc[h] = "in_push"
  /\ PushChanges(h, commit_msg[h])
  /\ IF PushResult(h)
     THEN /\ pc' = [pc EXCEPT ![h] = "in_unlink"]
          /\ lostTo' = [lostTo EXCEPT ![h] = 0]
     ELSE /\ pc' = [pc EXCEPT ![h] = "in_reset"]
          /\ lostTo' = [lostTo EXCEPT ![h] = Len(history)]
  /\ UNCHANGED <<wc, ret, bv_list, commit_msg, processed, saved, limit_type,
                 duration_limit, force, synced>>

\* (mutant) an in_queue that unlinks the files whatever push_changes returned
UnlinkAt_AnyResult == {"in_unlink", "in_push"}

\* "for input_file in input_files: input_file.unlink()" stands after the
\* "continue" of a failed push.
UnlinkAt == {"in_unlink"}

\* The files of the glob are unlinked and the loop starts over.
ServerInUnlink(h) ==
  /\ UNCHANGED notup
  /\ h \in Servers /\ pc[h] \in UnlinkAt
  /\ server_text' = [server_text EXCEPT ![h] = @ \ in_input_files[h]]
  /\ in_input_files' = in_input_files
  /\ pc' = [pc EXCEPT ![h] = "in_reset"]
  /\ UNCHANGED <<history, wc, head, ret, bv_list, commit_msg, processed, saved,
                 limit_type, duration_limit, force, synced, lostTo>>

\* reset_repo or push_changes raises: logged, sleep(10), the loop starts over.
ServerInError(h) ==
  /\ UNCHANGED notup /\ UNCHANGED upvars
  /\ h \in Servers /\ pc[h] \in {"in_reset", "in_push"}
  /\ pc' = [pc EXCEPT ![h] = "in_reset"]
  /\ UNCHANGED <<history, wc, head, ret, bv_list, commit_msg, processed,
                 saved, limit_type, duration_limit, force, synced, lostTo>>

ServerInNext(h) ==
  \/ ServerInReset(h)
  \/ ServerInCopy(h)
  \/ ServerInPush(h)
  \/ ServerInUnlink(h)
  \/ ServerInError(h)

\* server_run.main has left its loop and calls in_queue: each server has the
\* results of its own jobs in SRC_DIR; from_stt may hold results of earlier
\* runs, its own among them.  The client collects from_stt meanwhile.
InitResults ==
  /\ \E arts \in SUBSET Results :
       history = <<[tree |-> MkTree(<<>>, arts), by |-> "init", msg |-> <<>>,
                    after |-> 0]>>
  /\ limit_type = [h \in Hosts |-> "less_than"]
  /\ duration_limit = DurationLimit
  /\ \E b \in BOOLEAN : force = [h \in Hosts |-> b]
  /\ wc = [h \in Hosts |-> Tip.tree]
  /\ head = [h \in Hosts |-> 1]
  /\ pc = [h \in Hosts |-> IF h \in Servers THEN "in_reset"
                           ELSE IF h \in Producers THEN "idle" ELSE "reset"]
  /\ ret = [h \in Hosts |-> "running"]
  /\ bv_list = [h \in Hosts |-> NoLine]
  /\ commit_msg = [h \in Hosts |-> <<>>]
  /\ processed = [h \in Hosts |-> <<>>]
  /\ saved = [h \in Hosts |-> {}]
  /\ synced = [h \in Hosts |-> Tip.tree]
  /\ lostTo = [h \in Hosts |-> 0]
  /\ server_text \in [Servers -> SUBSET Results]
  /\ \A g, h \in Servers : g # h => server_text[g] \cap server_text[h] = {}
  /\ in_input_files = [h \in Servers |-> {}]
  /\ IdleIn
  /\ NoTest
  /\ NoFix
  /\ NoDistCall /\ NoPoolBuilt /\ RepoReachable /\ NoCallback
  /\ IdleChunks /\ IdlePool /\ IdleRate

NextResults == (\E h \in Servers : ServerInNext(h)) \/ ClientNext("c1")

SpecResults == InitResults /\ [][NextResults]_vars

\* where a result file can be: a server's SRC_DIR, the shared from_stt, or
\* the save directory of the client that collected it
ResultsKept ==
  UNION {server_text[h] : h \in Servers} \cup Tip.tree.from_stt
    \cup UNION {saved[h] : h \in Clients}

C35_Ended == \A h \in Servers : pc[h] = "in_done" => server_text[h] = {}

C35_Step ==
  /\ \A h \in Servers : \A r \in server_text[h] \ server_text'[h] :
       /\ pc[h] = "in_unlink"
       /\ r \in history[head[h]].tree.from_stt
  /\ ResultsKept \subseteq ResultsKept'

\* C35: server in_queue unlinks a result file only when the commit it has as
\* origin/<branch>, an accepted one, holds the file in from_stt; no step takes
\* a result out of SRC_DIR, the shared from_stt and the client's save
\* directory all at once; and in_queue has returned only with SRC_DIR empty.
C35_UnlinkAfterAcceptedPublish == []C35_Ended /\ [][C35_Step]_vars

\* C35 witness: a server whose first publish was rejected has published its
\* two result files in a later attempt, unlinked them and returned.
C35_Witness ==
  /\ pc["s1"] = "in_done" /\ server_text["s1"] = {}
  /\ \E k \in 2..Len(history) :
       /\ history[k].by = "s1" /\ history[k].after # 0
       /\ history[k].msg = <<2>>

\* commit k of the shared history is server h's removal of the line l
RemovalOf(k, h, l) ==
  /\ k \in 2..Len(history)
  /\ history[k].by = h /\ history[k].msg[2] = l.id
  /\ l.id \in LineIds(history[k - 1].tree.to_stt) \ LineIds(history[k].tree.to_stt)

C36_Published ==
  \A h \in Servers : \A i \in 1..Len(processed[h]) :
    \E k \in 2..Len(history) : RemovalOf(k, h, processed[h][i])

C36_Step ==
  \A h \in Servers : processed'[h] # processed[h] =>
    /\ Len(history') = Len(history) + 1
    /\ processed'[h] = Append(processed[h], bv_list[h])
    /\ RemovalOf(Len(history), h, bv_list[h])'

\* C36: every line the main loop hands to process_input is the line of
\* bv_list.txt whose removal this server has just had accepted; a line of a
\* rejected attempt is handed over only if a later commit of this server
\* removes it.
C36_ProcessedWasPublished == []C36_Published /\ [][C36_Step]_vars

\* C36 witness: a server's first attempt was rejected after another server's
\* commit, its later attempt was accepted, and its main loop has processed
\* the line of the accepted attempt only.
C36_Witness ==
  /\ Len(processed["s1"]) = 1 /\ Len(processed["s2"]) = 1
  /\ \E k \in 2..Len(history) :
       /\ history[k].by = "s1" /\ history[k].after # 0
       /\ history[k].msg[2] = processed["s1"][1].id

\* C37: a worker is in its except clause (about to put its task back, or
\* about to break) only for a task on which its own provider call failed.
C37_RequeueOnlyOnProviderFailure ==
  \A w \in Providers :
    wpc[w] \in {"requeue", "retire"} => <<task[w].id, w>> \in failures

\* ------------------------------------------------- client/fix_ai_summary.py
\* queue_size = len(ai_list); task_queue = queue.Queue(maxsize=queue_size)
queue_size == Cardinality(Providers)

\* fix_summaries up to the producer loop: the events cleared, one
\* worker_thread per entry of ai_list started, some files in need of a fix.
InitFix ==
  /\ fix_files \in 0..MaxFixFiles
  /\ fix_queue = <<>> /\ failed_queue = <<>>
  /\ producer_done = FALSE /\ fix_stop = FALSE /\ task_count = 0
  /\ fix_pc = "scan"
  /\ fix_wpc = [w \in Providers |-> "loop"]
  /\ fix_task = [w \in Providers |-> 0]
  /\ fix_taken = [i \in FixTasks |-> 0]
  /\ fix_outcomes = [i \in FixTasks |-> <<>>]

\* The producer reaches a file that needs a fix: task_queue.put(task,
\* timeout=1), tried again on queue.Full until the queue has room.
FixPut ==
  /\ UNCHANGED notfix
  /\ fix_pc = "scan" /\ fix_files > 0 /\ Len(fix_queue) < queue_size
  /\ fix_queue' = Append(fix_queue, task_count + 1)
  /\ task_count' = task_count + 1
  /\ fix_files' = fix_files - 1
  /\ UNCHANGED <<failed_queue, producer_done, fix_stop, fix_pc, fix_wpc, fix_task,
                 fix_taken, fix_outcomes>>

\* The glob is exhausted, or the producer loop raised and the exception was
\* logged: producer_done.set(); with task_count == 0 stop_event.set() and
\* return, else the joins.
FixProducerDone ==
  /\ UNCHANGED notfix
  /\ fix_pc = "scan"
  /\ \E raised \in BOOLEAN : fix_files = 0 \/ raised
  /\ producer_done' = TRUE
  /\ fix_stop' = (task_count = 0)
  /\ fix_pc' = IF task_count = 0 THEN "returned" ELSE "join"
  /\ UNCHANGED <<fix_files, fix_queue, failed_queue, task_count, fix_wpc, fix_task,
                 fix_taken, fix_outcomes>>

\* "for t in threads: while t.is_alive(): t.join(timeout=0.5)", the summary
FixJoin ==
  /\ UNCHANGED notfix
  /\ fix_pc = "join" /\ \A w \in Providers : fix_wpc[w] = "exited"
  /\ fix_pc' = "returned"
  /\ UNCHANGED <<fix_files, fix_queue, failed_queue, producer_done, fix_stop,
                 task_count, fix_wpc, fix_task, fix_taken, fix_outcomes>>

\* while not stop_event.is_set()
FixWorkerLoop(w) ==
  /\ UNCHANGED notfix
  /\ fix_wpc[w] = "loop"
  /\ fix_wpc' = [fix_wpc EXCEPT ![w] = IF fix_stop THEN "exited" ELSE "get"]
  /\ UNCHANGED <<fix_files, fix_queue, failed_queue, producer_done, fix_stop,
                 task_count, fix_pc, fix_task, fix_taken, fix_outcomes>>

\* task_queue.get(timeout=1); queue.Empty: break when the producer is done
\* and the queue is empty, else continue.
FixWorkerGet(w) ==
  /\ UNCHANGED notfix
  /\ fix_wpc[w] = "get"
  /\ IF fix_queue # <<>>
     THEN /\ fix_task' = [fix_task EXCEPT ![w] = Head(fix_queue)]
          /\ fix_taken' = [fix_taken EXCEPT ![Head(fix_queue)] = @ + 1]
          /\ fix_queue' = QueueGet(fix_queue)
          /\ fix_wpc' = [fix_wpc EXCEPT ![w] = "process"]
     ELSE /\ fix_wpc' = [fix_wpc EXCEPT ![w] = IF producer_done THEN "exited" ELSE "loop"]
          /\ UNCHANGED <<fix_task, fix_taken, fix_queue>>
  /\ UNCHANGED <<fix_files, failed_queue, producer_done, fix_stop, task_count,
                 fix_pc, fix_outcomes>>

\* (mutant) a process_single_file that only logs a failure
FailedPut_Never(q, t) == q

\* failed_queue.put(task)
FailedPut(q, t) == Append(q, t)

\* "if stop_event.is_set(): task_queue.put(task); break", else
\* process_single_file: True, or the task on failed_queue and False.
FixWorkerProcess(w) ==
  /\ UNCHANGED notfix
  /\ fix_wpc[w] = "process"
  /\ IF fix_stop
     THEN /\ fix_queue' = Append(fix_queue, fix_task[w])
          /\ fix_wpc' = [fix_wpc EXCEPT ![w] = "exited"]
          /\ UNCHANGED <<failed_queue, fix_outcomes>>
     ELSE /\ \E success \in BOOLEAN :
               /\ fix_outcomes' = [fix_outcomes EXCEPT ![fix_task[w]] =
                                     Append(@, [by |-> w, success |-> success])]
               /\ failed_queue' = IF success THEN failed_queue
                                  ELSE FailedPut(failed_queue, fix_task[w])
          /\ fix_wpc' = [fix_wpc EXCEPT ![w] = "task_done"]
          /\ fix_queue' = fix_queue
  /\ UNCHANGED <<fix_files, producer_done, fix_stop, task_count, fix_pc, fix_task,
                 fix_taken>>

\* the counters, task_queue.task_done(), the wait of the provider's interval
FixWorkerTaskDone(w) ==
  /\ UNCHANGED notfix
  /\ fix_wpc[w] = "task_done"
  /\ fix_task' = [fix_task EXCEPT ![w] = 0]
  /\ fix_wpc' = [fix_wpc EXCEPT ![w] = "loop"]
  /\ UNCHANGED <<fix_files, fix_queue, failed_queue, producer_done, fix_stop,
                 task_count, fix_pc, fix_taken, fix_outcomes>>

FixWorker(w) ==
  \/ FixWorkerLoop(w)
  \/ FixWorkerGet(w)
  \/ FixWorkerProcess(w)
  \/ FixWorkerTaskDone(w)

NextFix == FixPut \/ FixProducerDone \/ FixJoin \/ \E w \in Providers : FixWorker(w)

InitFixSpec ==
  /\ InitFix
  /\ history = <<[tree |-> MkTree(<<>>, {}), by |-> "init", msg |-> <<>>, after |-> 0]>>
  /\ limit_type = [h \in Hosts |-> "less_than"]
  /\ duration_limit = DurationLimit
  /\ force = [h \in Hosts |-> FALSE]
  /\ InitHosts
  /\ IdleIn /\ NoTest /\ NoResults /\ NoDistCall /\ NoPoolBuilt /\ RepoReachable
  /\ NoCallback /\ IdleChunks /\ IdlePool /\ IdleRate

SpecFix == InitFixSpec /\ [][NextFix]_vars

\* Every thread gets to run, and the producer's put goes through once the
\* queue has room.
FairFix ==
  /\ SpecFix
  /\ WF_vars(FixPut) /\ WF_vars(FixProducerDone) /\ WF_vars(FixJoin)
  /\ \A w \in Providers : WF_vars(FixWorker(w))

\* how many times task i stands on failed_queue
TimesFailed(i) == Cardinality({k \in 1..Len(failed_queue) : failed_queue[k] = i})

C38_OneOutcome ==
  /\ \A i \in FixTasks :
       /\ fix_taken[i] <= 1 /\ Len(fix_outcomes[i]) <= fix_taken[i]
       /\ i > task_count => fix_taken[i] = 0
       /\ TimesFailed(i) =
            IF fix_outcomes[i] # <<>> /\ ~fix_outcomes[i][1].success THEN 1 ELSE 0
  /\ Len(fix_queue) <= queue_size

C38_Step ==
  \A w \in Providers : (fix_wpc[w] # "exited" /\ fix_wpc'[w] = "exited") =>
    \/ fix_stop
    \/ fix_wpc[w] = "get" /\ producer_done /\ fix_queue = <<>>

C38_AllSettled ==
  /\ fix_pc = "returned"
  /\ \A w \in Providers : fix_wpc[w] = "exited"
  /\ fix_queue = <<>>
  /\ \A i \in 1..task_count : fix_taken[i] = 1 /\ Len(fix_outcomes[i]) = 1

\* C38: every task the producer of fix_summaries enqueued is taken from the
\* queue once and gets one outcome, a failure standing once on failed_queue
\* and a success not at all; the queue never holds more than len(ai_list)
\* tasks; a worker leaves its loop only on an empty queue with the producer
\* done (or on the stop event of a run that found nothing); and in the end
\* all workers have exited with every enqueued task settled.
C38_FixSummaries == []C38_OneOutcome /\ [][C38_Step]_vars /\ <>C38_AllSettled

\* C38 witness: three files needed a fix; one worker failed on the first
\* task and went on to succeed on a later one; fix_summaries has returned.
C38_Witness ==
  /\ fix_pc = "returned" /\ task_count = MaxFixFiles
  /\ fix_outcomes[1] = <<[by |-> "p1", success |-> FALSE]>>
  /\ \E i \in 2..task_count : fix_outcomes[i] = <<[by |-> "p1", success |-> TRUE]>>
  /\ failed_queue = <<1>>

\* ------------------------------------------- ai_utils.py: test_all_ai_apis
\* An entry of open_ai_list: its openai_api_name ("None": the key is
\* missing) and its is_failed flag.
ConfigEntries == [name : Providers \cup {"None"}, is_failed : BOOLEAN]

\* cfg.get("openai_api_name", "unknown")
NameOf(cfg) == IF cfg.name = "None" THEN "unknown" ELSE cfg.name

\* mark_failed(name) / mark_available(name): the first item whose
\* openai_api_name equals name gets the flag; break.
MarkByName(configs, name, flag) ==
  LET M == {i \in 1..Len(configs) : configs[i].name = name}
  IN IF M = {} THEN configs
     ELSE LET k == CHOOSE i \in M : \A j \in M : i <= j
          IN [configs EXCEPT ![k].is_failed = flag]

\* all_configs = get_all(include_failed=True); any_success = False
InitTest ==
  /\ all_configs \in SeqsUpTo(ConfigEntries, MaxConfigs)
  /\ futures = [i \in 1..Len(all_configs) |-> "running"]
  /\ completed = {}
  /\ any_success = FALSE
  /\ test_ret = "running"

\* ThreadPoolExecutor(max_workers=len(all_configs)) with no config at all
\* raises ValueError.
TestNoConfig ==
  /\ UNCHANGED nottest
  /\ test_ret = "running" /\ Len(all_configs) = 0
  /\ test_ret' = "raised"
  /\ UNCHANGED <<all_configs, futures, completed, any_success>>

\* _test_single(cfg) in a thread of the executor: test_ai_availability
TestSingle(i) ==
  /\ UNCHANGED nottest
  /\ test_ret = "running" /\ i \in 1..Len(all_configs) /\ futures[i] = "running"
  /\ \E success \in BOOLEAN :
       futures' = [futures EXCEPT ![i] = IF success THEN "passed" ELSE "failed"]
  /\ UNCHANGED <<all_configs, completed, any_success, test_ret>>

\* one round of "for future in as_completed(futures)"
AsCompleted(i) ==
  /\ UNCHANGED nottest
  /\ test_ret = "running" /\ i \in 1..Len(all_configs) /\ i \notin completed
  /\ futures[i] # "running"
  /\ all_configs' = MarkByName(all_configs, NameOf(all_configs[i]),
                               futures[i] = "failed")
  /\ any_success' = (any_success \/ futures[i] = "passed")
  /\ completed' = completed \cup {i}
  /\ UNCHANGED <<futures, test_ret>>

\* return any_success
TestReturn ==
  /\ UNCHANGED nottest
  /\ test_ret = "running" /\ Len(all_configs) > 0
  /\ completed = 1..Len(all_configs)
  /\ test_ret' = IF any_success THEN "True" ELSE "False"
  /\ UNCHANGED <<all_configs, futures, completed, any_success>>

NextTest ==
  \/ TestNoConfig
  \/ \E i \in 1..MaxConfigs : TestSingle(i) \/ AsCompleted(i)
  \/ TestReturn

InitTestSpec ==
  /\ InitTest
  /\ history = <<[tree |-> MkTree(<<>>, {}), by |-> "init", msg |-> <<>>, after |-> 0]>>
  /\ limit_type = [h \in Hosts |-> "less_than"]
  /\ duration_limit = DurationLimit
  /\ force = [h \in Hosts |-> FALSE]
  /\ InitHosts
  /\ IdleIn /\ NoFix /\ NoResults /\ NoDistCall /\ NoPoolBuilt /\ RepoReachable
  /\ NoCallback /\ IdleChunks /\ IdlePool /\ IdleRate

SpecTest == InitTestSpec /\ [][NextTest]_vars

\* C39: when test_all_ai_apis has returned, it returned True exactly when the
\* test of some entry passed, and every entry's is_failed flag is set exactly
\* when its own test failed.
C39_FlagsFollowTests ==
  test_ret \in {"True", "False"} =>
    /\ (test_ret = "True") = (\E i \in 1..Len(all_configs) : futures[i] = "passed")
    /\ \A i \in 1..Len(all_configs) :
         all_configs[i].is_failed = (futures[i] = "failed")

====
